---- MODULE Spec2Model ----
(***************************************************************************)
(* A model of tinygrad/runtime/support/hcq.py, the Hardware Command Queue  *)
(* runtime core.                                                           *)
(*                                                                         *)
(* Part I  models one HWQueue object: the word stream _q, the three        *)
(*         metadata vectors the hcq_command decorator maintains, the       *)
(*         update_* kind guards, _patch and submit.                        *)
(* Part II models the devices: each device's timeline signal, shadow       *)
(*         signal and timeline_value, its compute and copy engines         *)
(*         executing the submitted queues, the allocator's staging ring,   *)
(*         and the host, which runs one operation of the core at a time    *)
(*         (Program launch, synchronize, copy_in, copy_from_disk,          *)
(*         copy_out, transfer, clock calibration).                         *)
(*         A launch takes its kernargs from the device's bump arena;       *)
(*         synchronize calls the backend's on_device_hang when its wait    *)
(*         times out on a device that has the hook.                        *)
(* Apart from the devices, one HCQSignal object with a thread inside       *)
(* wait(value, timeout), and the ProfileLogger class with its live         *)
(* objects, are modelled as processes of their own.                        *)
(***************************************************************************)
EXTENDS Integers, Sequences, FiniteSets, TLC

(***************************************************************************)
(* Bounds of the model.                                                    *)
(***************************************************************************)
\* Largest number of entries of cmds_offset a modelled queue object gets.
MaxCmds == 3

\* The arguments a caller passes to the queue builder: the signal, the
\* second field of exec and copy, and the values of every other field.
SigIds == {1}
FieldVals == {0, 1}
\* An Optional[...] argument: <<>> is None, <<v>> is the value v.
Opt(S) == {<<>>} \cup {<<v>> : v \in S}

\* Host operations started in one behaviour.
MaxOps == 2
\* Host operations started in one behaviour of the staging-ring scenario.
MaxRingOps == 3
\* Host operations started in one behaviour of the wrap scenario.
MaxWrapOps == 3
\* Chunks of the largest copy of the staging-ring scenario (more than the
\* ring has slots, so that a copy reuses a slot).
RingChunks == 3
\* Chunks of the largest copy_in, copy_out or copy_from_disk.
MaxChunks == 2
\* Models the wrap threshold 1 << 31 of synchronize, scaled down so that a
\* behaviour reaches it.
WrapLimit == 3
\* Models batch_cnt, the number of staging buffers (32 by default).
NSlots == 2
\* Models batch_size, the bytes of one staging buffer (2 MiB by default).
BufSize == 2
\* Models the 100 samples per device of the clock calibration.
SamplesPerDev == 2
\* Models the 20 rounds of the calibration's device-to-device handshake.
HandshakeRounds == 1
\* Host operations started in one behaviour of the calibration scenario.
MaxCalOps == 2
\* ProfileLogger objects alive at a time (one per device that profiles).
MaxLoggers == 2
\* ProfileLogger objects constructed in one behaviour.
MaxMade == 3
\* Events, and dependencies, one logger collects.
MaxEvents == 1
\* Models kernargs_page.size, the bytes of the kernargs arena (16 MiB).
ArenaSize == 4
\* Models kernargs_page.va_addr, the address of the arena.
ArenaBase == 8
\* kernargs_alloc_size of the program the scenarios launch.
ProgArgs == 1
\* Host operations started in one behaviour of the kernargs scenario.
MaxArgsOps == 3
\* Host operations started in one behaviour of the scenario of repeated
\* wraps (enough launches to pass the threshold twice).
MaxLaunchOps == 6
\* Largest value a signal takes, and largest target, in the scenario of
\* HCQSignal.wait.
MaxValue == 2
\* Largest timeout, in ms, passed to HCQSignal.wait.
MaxTimeout == 2
\* Last reading of the clock, in ms, in the scenario of HCQSignal.wait.
MaxTime == 4
\* Operations the host starts in the scenario of the profile records.
MaxProfOps == 2
\* Calls of _ensure_shared_time_base in the scenario of the handshake.
MaxHandshakeOps == 1

\* The devices of HCQCompiled.devices.
Devs == {1, 2}

QueueTypes == {"compute", "copy"}
CmdKinds == {"signal", "wait", "timestamp", "memory_barrier", "exec", "copy"}

VARIABLES
  qtype,        \* which backend queue class the queue object is
  q,            \* HWQueue._q, the word stream
  cmds_offset,  \* HWQueue.cmds_offset
  cmds_len,     \* HWQueue.cmds_len
  cmds_meta,    \* HWQueue.cmds_meta
  built,        \* the commands appended so far, with the fields they now carry
  call,         \* the last call made on the queue object: the method, its
                \* cmd_idx argument, how it ended, and whether it called
                \* the backend (emitter, patcher or _submit)
  profile,         \* the PROFILE flag of the process
  hw_copy_queue_t, \* per device, whether HCQCompiled.hw_copy_queue_t is a
                   \* queue class (FALSE: it is None)
  on_device_hang,  \* per device, whether the device object has the hook
                   \* on_device_hang
  kernargs_ptr,    \* HCQCompiled.kernargs_ptr, per device
  sig_prof_records,  \* per device, HCQCompiled.sig_prof_records: (desc, is_copy) of each pair
  raw_prof_records,  \* per device, len(HCQCompiled.raw_prof_records)
  time_diff,       \* per device and engine, whether gpu2cpu_compute_time_diff
                   \* / gpu2cpu_copy_time_diff holds a number (not NaN)
  timeline_value,  \* HCQCompiled.timeline_value, per device
  active,          \* per device, which of its two signal objects is
                   \* timeline_signal (the other is _shadow_timeline_signal)
  sigval,          \* per device, the value cells of its two signal objects
  eng,             \* per device and engine, the submitted queues not yet
                   \* executed to the end, oldest first
  b_timeline,      \* HCQAllocator.b_timeline, per device
  b_next,          \* HCQAllocator.b_next, per device
  pc,              \* the host: the operation it runs and where it is in it
  nops,            \* host operations the behaviour may still start
  sw,              \* one HCQSignal object and a thread inside its wait():
                   \* the value cell, the clock in ms, and wait's locals
  pl               \* the ProfileLogger class (writers, len(mjson), actors),
                   \* its live objects with their events and deps, and the
                   \* trace documents written so far

qvars == <<qtype, q, cmds_offset, cmds_len, cmds_meta, built, call>>

dvars == <<profile, hw_copy_queue_t, on_device_hang, kernargs_ptr, sig_prof_records, raw_prof_records,
          time_diff, timeline_value, active, sigval, eng, b_timeline, b_next, pc, nops>>

\* The objects modelled apart from the queue builder and the devices.
ovars == <<sw, pl>>

vars == <<qvars, dvars, ovars>>

(***************************************************************************)
(* Part I.  The queue builder.                                             *)
(***************************************************************************)

\* The emitters a backend queue class overrides.  The base class implements
\* only _memory_barrier (as a no-op); every other emitter raises
\* NotImplementedError until a backend overrides it.  A compute queue
\* overrides _signal, _wait, _timestamp, _memory_barrier and _exec, a copy
\* queue _signal, _wait, _timestamp and _copy.
Overrides(t) ==
  IF t = "compute" THEN {"signal", "wait", "timestamp", "memory_barrier", "exec"}
  ELSE {"signal", "wait", "timestamp", "copy"}

\* The emitter of command kind k raises NotImplementedError on queue class t.
EmitterRaises(t, k) == k \notin Overrides(t) /\ k # "memory_barrier"

\* The first word a backend emits for a command kind.
Opcode(k) ==
  CASE k = "signal" -> 11 [] k = "wait" -> 12 [] k = "timestamp" -> 13
    [] k = "memory_barrier" -> 14 [] k = "exec" -> 15 [] k = "copy" -> 16

\* The words the backend's emitter appends for a command with fields f.
\* Updatable fields sit at fixed offsets 1 and 2 of the command.
Emit(t, k, f) ==
  CASE k \in {"signal", "wait"} -> <<Opcode(k), f[1], f[2]>>
    [] k = "timestamp" -> <<Opcode(k), f[1]>>
    [] k = "memory_barrier" -> IF k \in Overrides(t) THEN <<Opcode(k)>> ELSE <<>>
    [] k = "exec" -> <<Opcode(k), f[1], f[2]>>
    [] k = "copy" -> <<Opcode(k), f[1], f[2], f[3]>>

\* The arguments a caller can pass to each command-appending method.
FieldsOf(k) ==
  CASE k \in {"signal", "wait"} -> SigIds \X FieldVals
    [] k = "timestamp" -> {<<s>> : s \in SigIds}
    [] k = "memory_barrier" -> {<<>>}
    [] k = "exec" -> FieldVals \X SigIds
    [] k = "copy" -> FieldVals \X SigIds \X {1}

\* HWQueue.__len__
QLen == Len(cmds_offset)

\* HWQueue._cur_cmd_idx
CurCmdIdx == QLen - 1

\* HWQueue.__init__
NewQueue ==
  /\ qtype' \in QueueTypes
  /\ q' = <<>> /\ cmds_offset' = <<>> /\ cmds_len' = <<>> /\ cmds_meta' = <<>>
  /\ built' = <<>>
  /\ call' = [op |-> "new", idx |-> 0, res |-> "ok", backend |-> FALSE]

\* hcq_command.__wrapper around an emitter that returns.
AppendOk(k, f) ==
  /\ QLen < MaxCmds
  /\ ~EmitterRaises(qtype, k)
  /\ LET q1 == q \o Emit(qtype, k, f)
         off1 == Append(cmds_offset, Len(q))
     IN /\ q' = q1
        /\ cmds_offset' = off1
        /\ cmds_len' = Append(cmds_len, Len(q1) - off1[Len(off1)])
        /\ cmds_meta' = Append(cmds_meta, k)
  /\ built' = Append(built, [kind |-> k, f |-> f])
  /\ call' = [op |-> k, idx |-> 0, res |-> "ok", backend |-> TRUE]
  /\ UNCHANGED qtype

\* hcq_command.__wrapper around an emitter that raises: the offset has been
\* recorded, the emitter raised before the length and the kind were.
AppendRaises(k, f) ==
  /\ QLen < MaxCmds
  /\ EmitterRaises(qtype, k)
  /\ cmds_offset' = Append(cmds_offset, Len(q))
  /\ call' = [op |-> k, idx |-> 0, res |-> "NotImplementedError", backend |-> TRUE]
  /\ UNCHANGED <<qtype, q, cmds_len, cmds_meta, built>>

\* One of the six command-appending methods of the queue.
AppendCmd ==
  \E k \in CmdKinds : \E f \in FieldsOf(k) : AppendOk(k, f) \/ AppendRaises(k, f)

\* HWQueue._patch: self._q[st:st+len(data)] = data with
\* st = cmds_offset[cmd_idx] + offset, as Python assigns to a list slice.
Patch(qq, offs, cmd_idx, offset, data) ==
  LET st == offs[cmd_idx + 1] + offset
      lo == IF st < Len(qq) THEN st ELSE Len(qq)
      hi == IF st + Len(data) < Len(qq) THEN st + Len(data) ELSE Len(qq)
  IN SubSeq(qq, 1, lo) \o data \o SubSeq(qq, hi + 1, Len(qq))

\* The backend's _update_* patcher of kind k: each argument that is not
\* None is patched over the field's word, the first at offset 1 and the
\* second at offset 2 of the command.
BackendUpdate(qq, offs, cmd_idx, a, b) ==
  LET q1 == IF a = <<>> THEN qq ELSE Patch(qq, offs, cmd_idx, 1, a)
  IN IF b = <<>> THEN q1 ELSE Patch(q1, offs, cmd_idx, 2, b)

\* The fields of a command after an update with arguments a and b.
NewFields(f, a, b) ==
  [i \in DOMAIN f |-> IF i = 1 /\ a # <<>> THEN a[1]
                      ELSE IF i = 2 /\ b # <<>> THEN b[1] ELSE f[i]]

\* The kinds that have an update operation.
UpdKinds == {"signal", "wait", "exec", "copy"}

\* The arguments a caller can pass to update_X.
UpdArgs(k) == IF k \in {"signal", "wait"} THEN Opt(SigIds) \X Opt(FieldVals)
              ELSE Opt(FieldVals) \X Opt(SigIds)

\* A kind guard that does not compare the recorded kind.
KindGuardUnchecked(meta, X, j) ==
  IF j + 1 > Len(meta) THEN "IndexError" ELSE "ok"

\* The kind guard of update_signal, update_wait, update_exec and update_copy:
\* the error the call ends with, or "ok" when the patcher is to be called.
KindGuard(meta, X, j) ==
  IF j + 1 > Len(meta) THEN "IndexError"
  ELSE IF meta[j + 1] # X THEN "RuntimeError" ELSE "ok"

\* update_signal, update_wait, update_exec, update_copy on command index j.
UpdateCmd ==
  \E X \in UpdKinds : \E j \in 0 .. (QLen - 1) :
    LET g == KindGuard(cmds_meta, X, j) IN
    /\ call' = [op |-> "update_" \o X, idx |-> j, res |-> g, backend |-> (g = "ok")]
    /\ IF g = "ok"
       THEN \E ab \in UpdArgs(X) :
              /\ q' = BackendUpdate(q, cmds_offset, j, ab[1], ab[2])
              /\ built' = [built EXCEPT ![j + 1].f = NewFields(@, ab[1], ab[2])]
       ELSE UNCHANGED <<q, built>>
    /\ UNCHANGED <<qtype, cmds_offset, cmds_len, cmds_meta>>

\* A submit that calls the backend's _submit whatever the word stream holds.
SubmitCallsAlways(qq) == TRUE

\* HWQueue.submit calls the backend's _submit when the word stream is not
\* empty.
SubmitCalls(qq) == qq # <<>>

\* HWQueue.submit: the backend's _submit, when called, is handed the word
\* stream.
Submit ==
  /\ call' = [op |-> "submit", idx |-> 0, res |-> "ok", backend |-> SubmitCalls(q)]
  /\ UNCHANGED <<qtype, q, cmds_offset, cmds_len, cmds_meta, built>>

\* The word stream of the commands of b built afresh on a queue of class t.
RECURSIVE Encode(_, _)
Encode(t, b) ==
  IF b = <<>> THEN <<>>
  ELSE Encode(t, SubSeq(b, 1, Len(b) - 1)) \o Emit(t, b[Len(b)].kind, b[Len(b)].f)

\* HCQCompiled.__init__ and HCQAllocator.__init__ of every device; the
\* host runs no operation.
InitDevices ==
  /\ kernargs_ptr = [d \in Devs |-> ArenaBase]
  /\ sig_prof_records = [d \in Devs |-> <<>>]
  /\ raw_prof_records = [d \in Devs |-> 0]
  /\ time_diff = [d \in Devs |-> [k \in QueueTypes |-> FALSE]]
  /\ timeline_value = [d \in Devs |-> 1]
  /\ active = [d \in Devs |-> 0]
  /\ sigval = [d \in Devs |-> <<0, 0>>]
  /\ eng = [d \in Devs |-> [k \in QueueTypes |-> <<>>]]
  /\ b_timeline = [d \in Devs |-> [i \in 0 .. (NSlots - 1) |-> 0]]
  /\ b_next = [d \in Devs |-> 0]
  /\ pc = [op |-> "idle", at |-> "ok", d |-> 0, e |-> 0, i |-> 0, n |-> 0, x |-> <<>>, ret |-> ""]

\* A signal object constructed with value 0, no thread waiting on it.
InitObjects ==
  /\ sw = [pc |-> "idle", value |-> 0, now |-> 0, target |-> 0, timeout |-> 0,
           start_time |-> 0, time_spent |-> 0, seen |-> -1, low |-> FALSE, met |-> FALSE,
           err |-> <<>>]
  /\ pl = [writers |-> 0, mjson |-> 0, actors |-> {}, alive |-> {}, made |-> 0,
           events |-> [l \in 1 .. MaxLoggers |-> 0], deps |-> [l \in 1 .. MaxLoggers |-> 0],
           saved |-> <<>>]

\* A fresh queue object.
InitBuilder ==
  /\ q = <<>> /\ cmds_offset = <<>> /\ cmds_len = <<>> /\ cmds_meta = <<>>
  /\ built = <<>>
  /\ call = [op |-> "new", idx |-> 0, res |-> "ok", backend |-> FALSE]

InitQueue ==
  /\ qtype \in QueueTypes
  /\ InitBuilder
  /\ profile = FALSE
  /\ hw_copy_queue_t = [d \in Devs |-> TRUE]
  /\ on_device_hang = [d \in Devs |-> FALSE]
  /\ InitDevices
  /\ InitObjects
  /\ nops = 0

NextQueue == (NewQueue \/ AppendCmd \/ UpdateCmd \/ Submit) /\ UNCHANGED <<dvars, ovars>>

SpecQueue == InitQueue /\ [][NextQueue]_vars

(***************************************************************************)
(* Claims about the queue builder.                                         *)
(***************************************************************************)

\* The last call was update_X(j, ...) for a kind X that is not the kind
\* recorded for command j.
MismatchedUpdate(c, meta) ==
  \E X \in UpdKinds :
    /\ c.op = "update_" \o X
    /\ c.idx + 1 <= Len(meta)
    /\ meta[c.idx + 1] # X

\* C6: update_X(j, ...) on an existing command j whose recorded kind is not
\* X ends with an error, does not call the backend patcher, and leaves the
\* word stream and the offset, length and kind vectors as they were.
C6_KindGuardRejects ==
  [][MismatchedUpdate(call', cmds_meta)
       => /\ call'.res = "RuntimeError"
          /\ ~call'.backend
          /\ UNCHANGED <<q, cmds_offset, cmds_len, cmds_meta>>]_vars

\* C6 witness: update_signal was called on a recorded command of another
\* kind and was rejected.
C6_Witness ==
  /\ call.op = "update_signal" /\ call.res = "RuntimeError"
  /\ MismatchedUpdate(call, cmds_meta)
  /\ q # <<>>

\* C7: the three metadata vectors have equal length, the first offset is 0,
\* each command ends where the next begins, and the last command ends at
\* the end of the word stream.
C7_MetadataInvariant ==
  /\ Len(cmds_offset) = Len(cmds_len) /\ Len(cmds_len) = Len(cmds_meta)
  /\ cmds_offset # <<>> => cmds_offset[1] = 0
  /\ \A i \in 1 .. (Len(cmds_offset) - 1) :
        i <= Len(cmds_len) => cmds_offset[i] + cmds_len[i] = cmds_offset[i + 1]
  /\ (cmds_offset # <<>> /\ Len(cmds_len) = Len(cmds_offset))
        => cmds_offset[Len(cmds_offset)] + cmds_len[Len(cmds_len)] = Len(q)

\* C8: the word stream a submit hands to the backend is the one the
\* commands give when built afresh with the fields the updates set; and an
\* update changes no recorded offset, length or kind, nor the number of
\* commands, nor a word outside the recorded slice of the command updated.
C8_PatchEqualsRebuild ==
  /\ [](call.op = "submit" => q = Encode(qtype, built))
  /\ [][(\E X \in UpdKinds : call'.op = "update_" \o X)
         => /\ UNCHANGED <<cmds_offset, cmds_len, cmds_meta>>
            /\ Len(q') = Len(q)
            /\ \A w \in 1 .. Len(q) :
                  q'[w] # q[w]
                    => /\ call'.idx + 1 <= Len(cmds_len)
                       /\ w > cmds_offset[call'.idx + 1]
                       /\ w <= cmds_offset[call'.idx + 1] + cmds_len[call'.idx + 1]]_vars

\* C9: submit calls the backend's _submit once when the word stream holds
\* words and not at all when it holds none, and changes nothing of the queue.
C9_SubmitFrame ==
  [][call'.op = "submit"
       => /\ call'.backend <=> (q # <<>>)
          /\ UNCHANGED <<qtype, q, cmds_offset, cmds_len, cmds_meta, built>>
          /\ UNCHANGED <<timeline_value, active, sigval>>]_vars

\* C9 witness: a copy queue that recorded a memory_barrier, which emitted no
\* word, was submitted and the backend was not called.
C9_Witness ==
  /\ call.op = "submit" /\ ~call.backend
  /\ cmds_meta # <<>> /\ cmds_meta[1] = "memory_barrier"
  /\ q = <<>>

(***************************************************************************)
(* Part II.  Devices, engines, the staging ring and the host.              *)
(***************************************************************************)

\* The slot field of a command that touches no staging buffer.
NoSlot == NSlots

\* The host's position between operations: how the last one ended ("ok" or
\* the exception it raised), and the device whose timeline its
\* synchronize wrapped (0: none).
Done(res, w) == [op |-> "idle", at |-> res, d |-> w, e |-> 0, i |-> 0, n |-> 0, x |-> <<>>, ret |-> ""]

Idle == Done("ok", 0)

\* The host's position inside operation o.
At(o, a, d, e, i, n, x, ret) ==
  [op |-> o, at |-> a, d |-> d, e |-> e, i |-> i, n |-> n, x |-> x, ret |-> ret]

\* A command of a submitted queue.  sd and so name a signal object (device
\* and which of its two objects); sd = 0 is a signal other than a timeline
\* signal (the profiling pair st / en).
Cmd(o, sd, so, val, slot, dst) ==
  [op |-> o, sd |-> sd, so |-> so, val |-> val, slot |-> slot, dst |-> dst]

\* wait(dev.timeline_signal, v), with the signal object the attribute names
\* when the queue is built.
WaitTl(d, v) == Cmd("wait", d, active[d], v, NoSlot, 0)

\* signal(dev.timeline_signal, v).
SignalTl(d, v) == Cmd("signal", d, active[d], v, NoSlot, 0)

\* timestamp(dev.timeline_signal).
TimestampTl(d) == Cmd("timestamp", d, active[d], 0, NoSlot, 0)

\* timestamp(st) or timestamp(en) of a profiling pair.
TimestampProf == Cmd("timestamp", 0, 0, 0, NoSlot, 0)

MemoryBarrier == Cmd("memory_barrier", 0, 0, 0, NoSlot, 0)

Exec(args, size) == Cmd("exec", 0, 0, size, NoSlot, args)

\* copy(dest, src, size) reading staging buffer slot (NoSlot: none).
Copy(dst, slot, size) == Cmd("copy", 0, 0, size, slot, dst)

\* The value of device d's timeline_signal, as a host read sees it.
TlValue(d) == sigval[d][active[d] + 1]

\* Commands the engine executes with an effect on a signal: the others
\* (timestamp, memory_barrier, exec, copy) complete before the next one.
Effective(c) == c.op \in {"wait", "signal"}

RECURSIVE SkipIdle(_)
SkipIdle(Q) ==
  IF Q = <<>> THEN <<>>
  ELSE IF Effective(Q[1]) THEN Q ELSE SkipIdle(Tail(Q))

\* What is left on an engine after the head queue went from Q to its rest R.
Advance(E, R) == IF SkipIdle(R) = <<>> THEN Tail(E) ELSE <<SkipIdle(R)>> \o Tail(E)

\* Engine k of device d executes the next command of its oldest queue: a
\* wait passes when the signal has reached the value, a signal stores it.
EngineStep(d, k) ==
  /\ eng[d][k] # <<>>
  /\ LET Q == SkipIdle(eng[d][k][1])
         c == Q[1]
     IN IF Q = <<>>
          THEN /\ eng' = [eng EXCEPT ![d][k] = Tail(@)]
               /\ UNCHANGED sigval
          ELSE /\ c.op = "wait" => sigval[c.sd][c.so + 1] >= c.val
               /\ sigval' = IF c.op = "signal"
                              THEN [sigval EXCEPT ![c.sd][c.so + 1] = c.val]
                              ELSE sigval
               /\ eng' = [eng EXCEPT ![d][k] = Advance(@, Tail(Q))]
  /\ UNCHANGED <<profile, hw_copy_queue_t, on_device_hang, kernargs_ptr, sig_prof_records, raw_prof_records, time_diff, timeline_value, active, b_timeline, b_next, pc, nops>>
  /\ UNCHANGED <<qvars, ovars>>

DeviceStep == \E d \in Devs : \E k \in QueueTypes : EngineStep(d, k)

\* The mutant of SubmitTo: the increment is left out.
SubmitToNoIncrement(d, k, Q) ==
  /\ eng' = [eng EXCEPT ![d][k] = Append(@, Q)]
  /\ timeline_value' = timeline_value

\* queue.submit(dev) followed by dev.timeline_value += 1.
SubmitTo(d, k, Q) ==
  /\ eng' = [eng EXCEPT ![d][k] = Append(@, Q)]
  /\ timeline_value' = [timeline_value EXCEPT ![d] = @ + 1]

\* The stand-alone queue hcq_profile submits around a copy when PROFILE is
\* set: wait, timestamp, signal.
ProfQueue(d) ==
  <<WaitTl(d, timeline_value[d] - 1), TimestampProf, SignalTl(d, timeline_value[d])>>

\* The device's copy queue class as a value: the class, or None on a device
\* constructed without one.
CopyQueueT(d) == IF hw_copy_queue_t[d] THEN "copy" ELSE "None"

\* hcq_profile's finally clause with PROFILE set: the pair of signals is
\* appended to the device's sig_prof_records with the description and the
\* flag queue_type is dev.hw_copy_queue_t.
RecordPair(d, desc, queue_type) ==
  sig_prof_records' = [sig_prof_records EXCEPT ![d] =
                         Append(@, [desc |-> desc, is_copy |-> (queue_type = CopyQueueT(d))])]

\* The host starts an operation.
StartOp == pc.op = "idle" /\ nops > 0 /\ nops' = nops - 1

\* The mutant of AllocKernargs: the bump pointer is never reset.
AllocKernargsNoReset(ptr, size) == [res |-> ptr, ptr |-> ptr + size]

\* HCQCompiled._alloc_kernargs(size) with the bump pointer at ptr: the
\* pointer is reset to the arena's address when it is at or past the end
\* less size; res is the address returned, ptr the pointer afterwards.
AllocKernargs(ptr, size) ==
  LET start == IF ptr >= ArenaBase + ArenaSize - size THEN ArenaBase ELSE ptr
  IN [res |-> start, ptr |-> start + size]

\* The mutant of LaunchQueue: the queue is built without the memory
\* barrier.
LaunchQueueNoBarrier(d, w, args, size) ==
  <<WaitTl(d, timeline_value[d] - 1)>>
    \o (IF w \/ profile THEN <<TimestampProf>> ELSE <<>>)
    \o <<Exec(args, size)>>
    \o (IF w \/ profile THEN <<TimestampProf>> ELSE <<>>)
    \o <<SignalTl(d, timeline_value[d])>>

\* HCQProgram.__call__: fill_kernargs takes the program's kernargs from the
\* device's arena, then one compute queue is submitted; with wait=True the
\* call goes on to synchronize.
LaunchQueue(d, w, args, size) ==
  <<WaitTl(d, timeline_value[d] - 1), MemoryBarrier>>
    \o (IF w \/ profile THEN <<TimestampProf>> ELSE <<>>)
    \o <<Exec(args, size)>>
    \o (IF w \/ profile THEN <<TimestampProf>> ELSE <<>>)
    \o <<SignalTl(d, timeline_value[d])>>

Launch(d, w, size) ==
  /\ StartOp
  /\ LET a == AllocKernargs(kernargs_ptr[d], size)
     IN /\ kernargs_ptr' = [kernargs_ptr EXCEPT ![d] = a.ptr]
        /\ SubmitTo(d, "compute", LaunchQueue(d, w, a.res, size))
  /\ IF profile THEN RecordPair(d, "program", "None") ELSE UNCHANGED sig_prof_records
  /\ pc' = IF w THEN At("synchronize", "wait", d, 0, 0, 0, <<>>, "launch") ELSE Idle
  /\ UNCHANGED <<profile, hw_copy_queue_t, on_device_hang, raw_prof_records, time_diff, active, sigval, b_timeline, b_next>>
  /\ UNCHANGED <<qvars, ovars>>

\* _copyin, copy_from_disk and _transfer on a device without a copy queue
\* class: the assert at their head fails before anything is submitted.
CopyAssert(d) ==
  /\ StartOp
  /\ ~hw_copy_queue_t[d]
  /\ pc' = Done("AssertionError", 0)
  /\ UNCHANGED <<profile, hw_copy_queue_t, on_device_hang, kernargs_ptr, sig_prof_records, raw_prof_records, time_diff, timeline_value, active, sigval, eng, b_timeline, b_next>>
  /\ UNCHANGED <<qvars, ovars>>

\* HCQCompiled.synchronize is entered.
SyncCall(d) ==
  /\ StartOp
  /\ pc' = At("synchronize", "wait", d, 0, 0, 0, <<>>, "")
  /\ UNCHANGED <<profile, hw_copy_queue_t, on_device_hang, kernargs_ptr, sig_prof_records, raw_prof_records, time_diff, timeline_value, active, sigval, eng, b_timeline, b_next>>
  /\ UNCHANGED <<qvars, ovars>>

\* Where copy_out stands before the chunk at byte i of n: the next chunk,
\* the exit of hcq_profile, or the end of the operation.
CopyOutPos(d, i, n) ==
  IF i < n THEN At("copy_out", "chunk", d, 0, i, n, <<>>, "")
  ELSE IF profile THEN At("copy_out", "exit", d, 0, 0, 0, <<>>, "") ELSE Idle

\* The mutant of WrapNeeded: the wrap is taken at every synchronize.
WrapAlways(v) == TRUE

\* synchronize's test after the wait: timeline_value > (1 << 31).
WrapNeeded(v) == v > WrapLimit

\* Where the host goes when synchronize returns to its caller; a launch
\* with wait=True then returns the duration (ret = "duration"), every other
\* operation returns None (ret = "").
AfterSync ==
  IF pc.ret = "copy_out"
    THEN IF ~hw_copy_queue_t[pc.d] THEN Done("AssertionError", 0)
         ELSE IF profile THEN At("copy_out", "start", pc.d, 0, 0, pc.n, <<>>, "")
                         ELSE CopyOutPos(pc.d, 0, pc.n)
    ELSE [Done("ok", IF WrapNeeded(timeline_value[pc.d]) THEN pc.d ELSE 0)
            EXCEPT !.ret = IF pc.ret = "launch" THEN "duration" ELSE ""]

\* The rest of synchronize once its wait is over:
\* _wrap_timeline_signal when the threshold is passed (the two signal
\* objects swap, the new active one is set to 0, timeline_value becomes 1
\* and the allocator's b_timeline is zeroed), and with PROFILE set the
\* pairs of sig_prof_records move to raw_prof_records.
SyncFinish ==
  /\ IF WrapNeeded(timeline_value[pc.d])
       THEN /\ active' = [active EXCEPT ![pc.d] = 1 - @]
            /\ sigval' = [sigval EXCEPT ![pc.d][(1 - active[pc.d]) + 1] = 0]
            /\ timeline_value' = [timeline_value EXCEPT ![pc.d] = 1]
            /\ b_timeline' = [b_timeline EXCEPT ![pc.d] = [i \in 0 .. (NSlots - 1) |-> 0]]
       ELSE UNCHANGED <<active, sigval, timeline_value, b_timeline>>
  /\ IF profile
       THEN /\ raw_prof_records' = [raw_prof_records EXCEPT ![pc.d] = @ + Len(sig_prof_records[pc.d])]
            /\ sig_prof_records' = [sig_prof_records EXCEPT ![pc.d] = <<>>]
       ELSE UNCHANGED <<sig_prof_records, raw_prof_records>>
  /\ pc' = AfterSync
  /\ UNCHANGED <<profile, hw_copy_queue_t, on_device_hang, kernargs_ptr, time_diff, eng, b_next, nops>>
  /\ UNCHANGED <<qvars, ovars>>

\* synchronize's wait on timeline_value - 1 succeeds.
SyncWaitOk ==
  /\ pc.op = "synchronize" /\ pc.at = "wait"
  /\ TlValue(pc.d) >= timeline_value[pc.d] - 1
  /\ SyncFinish

\* synchronize's wait times out: the last poll read a value below the
\* target; without an on_device_hang hook the RuntimeError leaves the
\* operation.
SyncTimeout ==
  /\ pc.op = "synchronize" /\ pc.at = "wait"
  /\ TlValue(pc.d) < timeline_value[pc.d] - 1
  /\ ~on_device_hang[pc.d]
  /\ pc' = Done("RuntimeError", 0)
  /\ UNCHANGED <<profile, hw_copy_queue_t, on_device_hang, kernargs_ptr, sig_prof_records, raw_prof_records, time_diff, timeline_value, active, sigval, eng, b_timeline, b_next, nops>>
  /\ UNCHANGED <<qvars, ovars>>

\* synchronize's wait times out on a device that has the hook: the handler
\* calls on_device_hang.
SyncHang ==
  /\ pc.op = "synchronize" /\ pc.at = "wait"
  /\ TlValue(pc.d) < timeline_value[pc.d] - 1
  /\ on_device_hang[pc.d]
  /\ pc' = [pc EXCEPT !.at = "hang"]
  /\ UNCHANGED <<profile, hw_copy_queue_t, on_device_hang, kernargs_ptr, sig_prof_records, raw_prof_records, time_diff, timeline_value, active, sigval, eng, b_timeline, b_next, nops>>
  /\ UNCHANGED <<qvars, ovars>>

\* The backend's on_device_hang raises: the error leaves synchronize.
HangRaises ==
  /\ pc.op = "synchronize" /\ pc.at = "hang"
  /\ pc' = Done("RuntimeError", 0)
  /\ UNCHANGED <<profile, hw_copy_queue_t, on_device_hang, kernargs_ptr, sig_prof_records, raw_prof_records, time_diff, timeline_value, active, sigval, eng, b_timeline, b_next, nops>>
  /\ UNCHANGED <<qvars, ovars>>

\* The backend's on_device_hang returns: synchronize goes on after the
\* try statement.
HangReturns ==
  /\ pc.op = "synchronize" /\ pc.at = "hang"
  /\ SyncFinish

\* min(buffer size, bytes left) of the chunk at byte i of n.
LSize(i, n) == IF n - i < BufSize THEN n - i ELSE BufSize

NextSlot(d) == (b_next[d] + 1) % NSlots

\* The queue of one staged chunk: wait, copy out of the staging buffer,
\* signal.
ChunkQueue(d, dst, slot, size) ==
  <<WaitTl(d, timeline_value[d] - 1), Copy(dst, slot, size), SignalTl(d, timeline_value[d])>>

\* HCQAllocator._copyin is entered with n bytes: hcq_profile's opening
\* queue when PROFILE is set, then the head of the loop, which advances
\* b_next before it waits for the slot.  pc.ret remembers whether the call
\* comes right after a synchronize that wrapped this device's timeline,
\* pc.x the values of b_next and timeline_value at entry.
CopyInCall(d, n) ==
  /\ StartOp
  /\ hw_copy_queue_t[d]
  /\ IF profile THEN SubmitTo(d, "copy", ProfQueue(d)) ELSE UNCHANGED <<eng, timeline_value>>
  /\ IF n > 0
       THEN /\ b_next' = [b_next EXCEPT ![d] = NextSlot(d)]
            /\ pc' = At("copy_in", "wait", d, 0, 0, n, <<b_next[d], timeline_value[d]>>,
                        IF pc.d = d THEN "wrapped" ELSE "")
       ELSE /\ UNCHANGED b_next
            /\ pc' = IF profile THEN At("copy_in", "exit", d, 0, 0, n, <<>>, "") ELSE Idle
  /\ UNCHANGED <<profile, hw_copy_queue_t, on_device_hang, kernargs_ptr, sig_prof_records, raw_prof_records, time_diff, active, sigval, b_timeline>>
  /\ UNCHANGED <<qvars, ovars>>

\* The mutant of SlotFree: the slot is taken whatever its timeline.
SlotFreeUnchecked(d, i) == TRUE

\* timeline_signal.value >= b_timeline[i]: the test of copy_in's wait and of
\* copy_from_disk's callback.
SlotFree(d, i) == TlValue(d) >= b_timeline[d][i]

\* copy_in's wait on b_timeline[b_next] succeeds.
CopyInSlotOk ==
  /\ pc.op = "copy_in" /\ pc.at = "wait"
  /\ SlotFree(pc.d, b_next[pc.d])
  /\ pc' = [pc EXCEPT !.at = "write"]
  /\ UNCHANGED <<profile, hw_copy_queue_t, on_device_hang, kernargs_ptr, sig_prof_records, raw_prof_records, time_diff, timeline_value, active, sigval, eng, b_timeline, b_next, nops>>
  /\ UNCHANGED <<qvars, ovars>>

\* The mutant of SlotAfterChunk: the ring does not advance.
SlotAfterChunkStuck(d) == b_next[d]

\* The slot of the chunk after the current one.
SlotAfterChunk(d) == NextSlot(d)

\* copy_in fills the slot (memmove), submits the chunk's queue, records the
\* value it signals in b_timeline and goes to the next chunk.
CopyInWrite ==
  /\ pc.op = "copy_in" /\ pc.at = "write"
  /\ LET d == pc.d
         slot == b_next[d]
     IN /\ SubmitTo(d, "copy", ChunkQueue(d, pc.i, slot, LSize(pc.i, pc.n)))
        /\ b_timeline' = [b_timeline EXCEPT ![d][slot] = timeline_value[d]]
        /\ IF pc.i + BufSize < pc.n
             THEN /\ b_next' = [b_next EXCEPT ![d] = SlotAfterChunk(d)]
                  /\ pc' = [pc EXCEPT !.at = "wait", !.i = pc.i + BufSize]
             ELSE /\ UNCHANGED b_next
                  /\ pc' = IF profile THEN At("copy_in", "exit", d, 0, 0, 0, <<>>, pc.ret) ELSE Idle
  /\ UNCHANGED <<profile, hw_copy_queue_t, on_device_hang, kernargs_ptr, sig_prof_records, raw_prof_records, time_diff, active, sigval, nops>>
  /\ UNCHANGED <<qvars, ovars>>

\* copy_in's wait times out; hcq_profile's finally clause still submits its
\* closing queue when PROFILE is set.
CopyInTimeout ==
  /\ pc.op = "copy_in" /\ pc.at = "wait"
  /\ ~SlotFree(pc.d, b_next[pc.d])
  /\ IF profile THEN SubmitTo(pc.d, "copy", ProfQueue(pc.d)) /\ RecordPair(pc.d, pc.op, CopyQueueT(pc.d))
                ELSE UNCHANGED <<eng, timeline_value, sig_prof_records>>
  /\ pc' = Done("RuntimeError", 0)
  /\ UNCHANGED <<profile, hw_copy_queue_t, on_device_hang, kernargs_ptr, raw_prof_records, time_diff, active, sigval, b_timeline, b_next, nops>>
  /\ UNCHANGED <<qvars, ovars>>

\* hcq_profile's closing queue at the end of a copy operation (PROFILE set).
ProfExit ==
  /\ pc.at = "exit"
  /\ SubmitTo(pc.d, "copy", ProfQueue(pc.d))
  /\ RecordPair(pc.d, pc.op, CopyQueueT(pc.d))
  /\ pc' = Idle
  /\ UNCHANGED <<profile, hw_copy_queue_t, on_device_hang, kernargs_ptr, raw_prof_records, time_diff, active, sigval, b_timeline, b_next, nops>>
  /\ UNCHANGED <<qvars, ovars>>

\* The largest value of a signal's value cell, an unsigned 64-bit word:
\* 2^64 - 1, here the largest integer of the model less one.
SignalMax == 2147483646

\* The value _get_temp_buf stores in b_timeline for a slot it hands to the
\* producer: 1 << 64, one above every value a signal can hold.
Reserved == SignalMax + 1

\* HCQAllocator.copy_from_disk is entered for n chunks: hcq_profile's
\* opening queue, then the producer (_copyout_sharded of the source
\* device) runs.  pc.n counts the chunks it still has to request, pc.x
\* holds the slots it was handed and has not yielded, oldest first.
DiskCall(d, n) ==
  /\ StartOp
  /\ hw_copy_queue_t[d]
  /\ IF profile THEN SubmitTo(d, "copy", ProfQueue(d)) ELSE UNCHANGED <<eng, timeline_value>>
  /\ pc' = At("copy_from_disk", "run", d, 0, 0, n, <<>>, "")
  /\ UNCHANGED <<profile, hw_copy_queue_t, on_device_hang, kernargs_ptr, sig_prof_records, raw_prof_records, time_diff, active, sigval, b_timeline, b_next>>
  /\ UNCHANGED <<qvars, ovars>>

\* The mutant of DiskGetBuf: the callback hands the slot out and leaves
\* b_next where it was.
DiskGetBufKeepsNext ==
  /\ pc.op = "copy_from_disk" /\ pc.n > 0
  /\ LET d == pc.d
         nx == NextSlot(d)
     IN IF SlotFree(d, nx)
          THEN /\ b_timeline' = [b_timeline EXCEPT ![d][nx] = Reserved]
               /\ b_next' = b_next
               /\ pc' = [pc EXCEPT !.n = pc.n - 1, !.x = Append(pc.x, nx), !.ret = "buf"]
          ELSE /\ pc' = [pc EXCEPT !.ret = "None"]
               /\ UNCHANGED <<b_timeline, b_next>>
  /\ UNCHANGED <<profile, hw_copy_queue_t, on_device_hang, kernargs_ptr, sig_prof_records, raw_prof_records, time_diff, timeline_value, active, sigval, eng, nops>>
  /\ UNCHANGED <<qvars, ovars>>

\* The producer calls _get_temp_buf.  When the next slot is free the
\* callback reserves it, advances b_next and returns the slot; otherwise it
\* returns None.  pc.ret holds what the last call returned.
DiskGetBuf ==
  /\ pc.op = "copy_from_disk" /\ pc.n > 0
  /\ LET d == pc.d
         nx == NextSlot(d)
     IN IF SlotFree(d, nx)
          THEN /\ b_timeline' = [b_timeline EXCEPT ![d][nx] = Reserved]
               /\ b_next' = [b_next EXCEPT ![d] = nx]
               /\ pc' = [pc EXCEPT !.n = pc.n - 1, !.x = Append(pc.x, nx), !.ret = "buf"]
          ELSE /\ pc' = [pc EXCEPT !.ret = "None"]
               /\ UNCHANGED <<b_timeline, b_next>>
  /\ UNCHANGED <<profile, hw_copy_queue_t, on_device_hang, kernargs_ptr, sig_prof_records, raw_prof_records, time_diff, timeline_value, active, sigval, eng, nops>>
  /\ UNCHANGED <<qvars, ovars>>

\* The producer has filled its oldest slot from the disk and yields it; the
\* loop body submits the chunk's queue and records the value it signals.
DiskYield ==
  /\ pc.op = "copy_from_disk" /\ pc.x # <<>>
  /\ LET d == pc.d
         slot == Head(pc.x)
     IN /\ SubmitTo(d, "copy", ChunkQueue(d, pc.i * BufSize, slot, BufSize))
        /\ b_timeline' = [b_timeline EXCEPT ![d][slot] = timeline_value[d]]
        /\ pc' = IF pc.n = 0 /\ Tail(pc.x) = <<>>
                   THEN IF profile THEN At("copy_from_disk", "exit", d, 0, 0, 0, <<>>, "") ELSE Idle
                   ELSE [pc EXCEPT !.i = pc.i + 1, !.x = Tail(pc.x)]
  /\ UNCHANGED <<profile, hw_copy_queue_t, on_device_hang, kernargs_ptr, sig_prof_records, raw_prof_records, time_diff, active, sigval, b_next, nops>>
  /\ UNCHANGED <<qvars, ovars>>

\* HCQAllocator._copyout is entered for n bytes: it synchronizes first.
CopyOutCall(d, n) ==
  /\ StartOp
  /\ pc' = At("synchronize", "wait", d, 0, 0, n, <<>>, "copy_out")
  /\ UNCHANGED <<profile, hw_copy_queue_t, on_device_hang, kernargs_ptr, sig_prof_records, raw_prof_records, time_diff, timeline_value, active, sigval, eng, b_timeline, b_next>>
  /\ UNCHANGED <<qvars, ovars>>

\* copy_out's hcq_profile opening queue (PROFILE set).
CopyOutStart ==
  /\ pc.op = "copy_out" /\ pc.at = "start"
  /\ SubmitTo(pc.d, "copy", ProfQueue(pc.d))
  /\ pc' = CopyOutPos(pc.d, 0, pc.n)
  /\ UNCHANGED <<profile, hw_copy_queue_t, on_device_hang, kernargs_ptr, sig_prof_records, raw_prof_records, time_diff, active, sigval, b_timeline, b_next, nops>>
  /\ UNCHANGED <<qvars, ovars>>

\* copy_out submits a chunk's queue (device memory into b[0]) and starts
\* waiting for timeline_value; the increment comes after the wait.
CopyOutChunk ==
  /\ pc.op = "copy_out" /\ pc.at = "chunk"
  /\ eng' = [eng EXCEPT ![pc.d]["copy"] =
               Append(@, ChunkQueue(pc.d, 0, NoSlot, LSize(pc.i, pc.n)))]
  /\ pc' = [pc EXCEPT !.at = "wait"]
  /\ UNCHANGED <<profile, hw_copy_queue_t, on_device_hang, kernargs_ptr, sig_prof_records, raw_prof_records, time_diff, timeline_value, active, sigval, b_timeline, b_next, nops>>
  /\ UNCHANGED <<qvars, ovars>>

\* copy_out's wait succeeds: timeline_value += 1, the chunk is moved out of
\* b[0], next chunk.
CopyOutWaitOk ==
  /\ pc.op = "copy_out" /\ pc.at = "wait"
  /\ TlValue(pc.d) >= timeline_value[pc.d]
  /\ timeline_value' = [timeline_value EXCEPT ![pc.d] = @ + 1]
  /\ pc' = CopyOutPos(pc.d, pc.i + BufSize, pc.n)
  /\ UNCHANGED <<profile, hw_copy_queue_t, on_device_hang, kernargs_ptr, sig_prof_records, raw_prof_records, time_diff, active, sigval, eng, b_timeline, b_next, nops>>
  /\ UNCHANGED <<qvars, ovars>>

\* copy_out's wait times out: timeline_value is not incremented for the
\* chunk; hcq_profile's finally clause submits its closing queue when
\* PROFILE is set.
CopyOutTimeout ==
  /\ pc.op = "copy_out" /\ pc.at = "wait"
  /\ TlValue(pc.d) < timeline_value[pc.d]
  /\ IF profile THEN SubmitTo(pc.d, "copy", ProfQueue(pc.d)) /\ RecordPair(pc.d, pc.op, CopyQueueT(pc.d))
                ELSE UNCHANGED <<eng, timeline_value, sig_prof_records>>
  /\ pc' = Done("RuntimeError", 0)
  /\ UNCHANGED <<profile, hw_copy_queue_t, on_device_hang, kernargs_ptr, raw_prof_records, time_diff, active, sigval, b_timeline, b_next, nops>>
  /\ UNCHANGED <<qvars, ovars>>

\* dest.va_addr of a transfer: an address in the memory of device t, apart
\* from the offsets the staged copies use.
PeerAddr(t) == RingChunks * BufSize + t

\* The copy queue of a transfer, on the source device: it waits for both
\* timelines and signals the source's.
TransferCopyQueue(s, t) ==
  <<WaitTl(s, timeline_value[s] - 1), WaitTl(t, timeline_value[t] - 1),
    Copy(PeerAddr(t), NoSlot, BufSize), SignalTl(s, timeline_value[s])>>

\* The compute queue of a transfer on the destination device: it waits for
\* the source's copy, then for its own timeline, and signals its own.
TransferDestQueue(s, t) ==
  <<WaitTl(s, timeline_value[s] - 1), WaitTl(t, timeline_value[t] - 1),
    SignalTl(t, timeline_value[t])>>

\* Where a transfer stands after the source's copy queue (and hcq_profile's
\* exit).
TransferPos(s, t) == IF s # t THEN At("transfer", "dest", s, t, 0, 0, <<>>, "") ELSE Idle

\* HCQAllocator._transfer from device s to device t is entered:
\* hcq_profile's opening queue when PROFILE is set, else the copy queue.
TransferCall(s, t) ==
  /\ StartOp
  /\ hw_copy_queue_t[s]
  /\ IF profile
       THEN /\ SubmitTo(s, "copy", ProfQueue(s))
            /\ pc' = At("transfer", "copy", s, t, 0, 0, <<>>, "")
       ELSE /\ SubmitTo(s, "copy", TransferCopyQueue(s, t))
            /\ pc' = TransferPos(s, t)
  /\ UNCHANGED <<profile, hw_copy_queue_t, on_device_hang, kernargs_ptr, sig_prof_records, raw_prof_records, time_diff, active, sigval, b_timeline, b_next>>
  /\ UNCHANGED <<qvars, ovars>>

\* The transfer's copy queue (PROFILE set: after the opening queue).
TransferCopy ==
  /\ pc.op = "transfer" /\ pc.at = "copy"
  /\ SubmitTo(pc.d, "copy", TransferCopyQueue(pc.d, pc.e))
  /\ pc' = [pc EXCEPT !.at = "pexit"]
  /\ UNCHANGED <<profile, hw_copy_queue_t, on_device_hang, kernargs_ptr, sig_prof_records, raw_prof_records, time_diff, active, sigval, b_timeline, b_next, nops>>
  /\ UNCHANGED <<qvars, ovars>>

\* hcq_profile's closing queue of a transfer.
TransferProfExit ==
  /\ pc.op = "transfer" /\ pc.at = "pexit"
  /\ SubmitTo(pc.d, "copy", ProfQueue(pc.d))
  /\ RecordPair(pc.d, pc.op, CopyQueueT(pc.d))
  /\ pc' = TransferPos(pc.d, pc.e)
  /\ UNCHANGED <<profile, hw_copy_queue_t, on_device_hang, kernargs_ptr, raw_prof_records, time_diff, active, sigval, b_timeline, b_next, nops>>
  /\ UNCHANGED <<qvars, ovars>>

\* The transfer's queue on the destination device.
TransferDest ==
  /\ pc.op = "transfer" /\ pc.at = "dest"
  /\ SubmitTo(pc.e, "compute", TransferDestQueue(pc.d, pc.e))
  /\ pc' = Idle
  /\ UNCHANGED <<profile, hw_copy_queue_t, on_device_hang, kernargs_ptr, sig_prof_records, raw_prof_records, time_diff, active, sigval, b_timeline, b_next, nops>>
  /\ UNCHANGED <<qvars, ovars>>

\* The other device of the pair.
Peer(d) == CHOOSE e \in Devs : e # d

\* The list choices of _ensure_shared_time_base: every device's compute
\* engine, then the copy engine of every device that has one.
Choices ==
  LET HasCopy(c) == hw_copy_queue_t[c.d]
  IN [c \in 1 .. Cardinality(Devs) |-> [d |-> c, k |-> "compute"]]
       \o SelectSeq([c \in 1 .. Cardinality(Devs) |-> [d |-> c, k |-> "copy"]], HasCopy)

\* _sync_cpu_queue's queue: a timestamp and a signal, no wait.
SampleQueue(d) == <<TimestampTl(d), SignalTl(d, timeline_value[d])>>

\* The mutant of HandshakeQueue: the queue waits for its peer before its
\* first signal.
HandshakeQueueWaitFirst(a, b) ==
  <<WaitTl(b, timeline_value[b]), SignalTl(a, timeline_value[a]),
    TimestampTl(a), SignalTl(a, timeline_value[a] + 1)>>

\* _sync_gpu_to_gpu_queue's queue on device a against device b.
HandshakeQueue(a, b) ==
  <<SignalTl(a, timeline_value[a]), WaitTl(b, timeline_value[b]),
    TimestampTl(a), SignalTl(a, timeline_value[a] + 1)>>

\* random.choice picks c: its sample queue is submitted and the host starts
\* waiting for it.  pc.x marks the choices sampled so far.
TakeSample(caller, c, i, marks) ==
  /\ SubmitTo(Choices[c].d, Choices[c].k, SampleQueue(Choices[c].d))
  /\ pc' = At("calibrate", "sample", caller, Choices[c].d, i, 0,
              [j \in 1 .. Len(Choices) |-> marks[j] \/ j = c], "")

\* The devices of the h-th handshake: the generator evaluates
\* _sync(d1, d2) - _sync(d2, d1) HandshakeRounds times for each ordered
\* pair (d1, d2).
HandshakeFirst(h) ==
  IF (h % 2 = 0) <=> (h < 2 * HandshakeRounds) THEN 1 ELSE 2

\* Both queues of a handshake are submitted, both timeline values go up by
\* two, and the host starts waiting for the first device.
StartHandshake(caller, h) ==
  LET a == HandshakeFirst(h)
      b == Peer(a)
  IN /\ eng' = [eng EXCEPT ![a]["compute"] = Append(@, HandshakeQueue(a, b)),
                           ![b]["compute"] = Append(@, HandshakeQueue(b, a))]
     /\ timeline_value' = [d \in Devs |-> timeline_value[d] + 2]
     /\ pc' = At("calibrate", "hs1", caller, a, h, 0, <<>>, "")

\* The mutant of Medians: the medians are computed and not stored.
MediansDropped(marks) == time_diff

\* The medians after the sampling loop, in the order of choices: a choice
\* with no sample makes statistics.median raise, which leaves the diffs
\* assigned before it.
Medians(marks) ==
  [d \in Devs |-> [k \in QueueTypes |->
     \/ time_diff[d][k]
     \/ \E c \in 1 .. Len(Choices) :
          /\ Choices[c].d = d /\ Choices[c].k = k
          /\ \A j \in 1 .. c : marks[j]]]

\* _ensure_shared_time_base is entered for device d (from _gpu2cpu_time):
\* it returns at once when the device's compute diff is set, else it draws
\* the first sample.
CalCall(d) ==
  /\ StartOp
  /\ IF time_diff[d]["compute"]
       THEN /\ pc' = Idle
            /\ UNCHANGED <<eng, timeline_value>>
       ELSE \E c \in 1 .. Len(Choices) :
              TakeSample(d, c, 1, [j \in 1 .. Len(Choices) |-> FALSE])
  /\ UNCHANGED <<profile, hw_copy_queue_t, on_device_hang, kernargs_ptr, sig_prof_records, raw_prof_records, time_diff, active, sigval, b_timeline, b_next>>
  /\ UNCHANGED <<qvars, ovars>>

\* The wait of _sync_cpu_queue succeeds: the next sample is drawn, or the
\* medians are taken and the first handshake starts.
CalSampleOk ==
  /\ pc.op = "calibrate" /\ pc.at = "sample"
  /\ TlValue(pc.e) >= timeline_value[pc.e] - 1
  /\ IF pc.i < SamplesPerDev * Cardinality(Devs)
       THEN /\ \E c \in 1 .. Len(Choices) : TakeSample(pc.d, c, pc.i + 1, pc.x)
            /\ UNCHANGED time_diff
       ELSE /\ time_diff' = Medians(pc.x)
            /\ IF \A j \in 1 .. Len(Choices) : pc.x[j]
                 THEN StartHandshake(pc.d, 0)
                 ELSE pc' = Done("StatisticsError", 0) /\ UNCHANGED <<eng, timeline_value>>
  /\ UNCHANGED <<profile, hw_copy_queue_t, on_device_hang, kernargs_ptr, sig_prof_records, raw_prof_records, active, sigval, b_timeline, b_next, nops>>
  /\ UNCHANGED <<qvars, ovars>>

\* The handshake's wait on its first device succeeds.
CalHandshakeFirstOk ==
  /\ pc.op = "calibrate" /\ pc.at = "hs1"
  /\ TlValue(pc.e) >= timeline_value[pc.e] - 1
  /\ pc' = [pc EXCEPT !.at = "hs2"]
  /\ UNCHANGED <<profile, hw_copy_queue_t, on_device_hang, kernargs_ptr, sig_prof_records, raw_prof_records, time_diff, timeline_value, active, sigval, eng, b_timeline, b_next, nops>>
  /\ UNCHANGED <<qvars, ovars>>

\* The handshake's wait on its second device succeeds: next handshake, or
\* the calibration is over.
CalHandshakeSecondOk ==
  /\ pc.op = "calibrate" /\ pc.at = "hs2"
  /\ TlValue(Peer(pc.e)) >= timeline_value[Peer(pc.e)] - 1
  /\ IF pc.i + 1 < 4 * HandshakeRounds
       THEN StartHandshake(pc.d, pc.i + 1)
       ELSE pc' = Idle /\ UNCHANGED <<eng, timeline_value>>
  /\ UNCHANGED <<profile, hw_copy_queue_t, on_device_hang, kernargs_ptr, sig_prof_records, raw_prof_records, time_diff, active, sigval, b_timeline, b_next, nops>>
  /\ UNCHANGED <<qvars, ovars>>

\* A wait of the calibration times out: the RuntimeError leaves the
\* operation.
CalTimeout ==
  /\ pc.op = "calibrate"
  /\ LET d == IF pc.at = "hs2" THEN Peer(pc.e) ELSE pc.e
     IN TlValue(d) < timeline_value[d] - 1
  /\ pc' = Done("RuntimeError", 0)
  /\ UNCHANGED <<profile, hw_copy_queue_t, on_device_hang, kernargs_ptr, sig_prof_records, raw_prof_records, time_diff, timeline_value, active, sigval, eng, b_timeline, b_next, nops>>
  /\ UNCHANGED <<qvars, ovars>>

\* The operations the host starts: every operation of the core, on every
\* device.
HostCall ==
  \E d \in Devs :
    \/ \E w \in BOOLEAN : Launch(d, w, ProgArgs)
    \/ SyncCall(d)
    \/ \E n \in 0 .. MaxChunks * BufSize : CopyInCall(d, n)
    \/ \E n \in 1 .. MaxChunks : DiskCall(d, n)
    \/ \E n \in 0 .. MaxChunks * BufSize : CopyOutCall(d, n)
    \/ \E t \in Devs : TransferCall(d, t)
    \/ CalCall(d)

\* The steps inside an operation.
HostStep ==
  \/ SyncWaitOk \/ SyncTimeout
  \/ CopyInSlotOk \/ CopyInWrite \/ CopyInTimeout \/ ProfExit
  \/ DiskGetBuf \/ DiskYield
  \/ CopyOutStart \/ CopyOutChunk \/ CopyOutWaitOk \/ CopyOutTimeout
  \/ TransferCopy \/ TransferProfExit \/ TransferDest
  \/ CalSampleOk \/ CalHandshakeFirstOk \/ CalHandshakeSecondOk \/ CalTimeout

Init ==
  /\ qtype = "compute"
  /\ InitBuilder
  /\ profile \in BOOLEAN
  /\ hw_copy_queue_t = [d \in Devs |-> TRUE]
  /\ on_device_hang = [d \in Devs |-> FALSE]
  /\ InitDevices
  /\ InitObjects
  /\ nops = MaxOps

Next == HostCall \/ HostStep \/ DeviceStep

Spec == Init /\ [][Next]_vars

(***************************************************************************)
(* The timeline protocol.                                                  *)
(***************************************************************************)

\* c is wait(timeline signal of d, v), for the signal object the device's
\* timeline_signal attribute names in the current state.
IsWait(c, d, v) == c.op = "wait" /\ c.sd = d /\ c.so = active[d] /\ c.val = v

\* c is signal(timeline signal of d, v).
IsSignal(c, d, v) == c.op = "signal" /\ c.sd = d /\ c.so = active[d] /\ c.val = v

\* The signals of queue Q on the timeline of d.
SignalsOn(Q, d) == {j \in 1 .. Len(Q) : Q[j].op = "signal" /\ Q[j].sd = d /\ Q[j].so = active[d]}

\* The queues a step hands to the engines of device d.
Submitted(d) ==
  {eng'[d][k][Len(eng'[d][k])] : k \in {kk \in QueueTypes : Len(eng'[d][kk]) > Len(eng[d][kk])}}

\* Whether the host has submitted a chunk of copy_out on d and not yet
\* incremented timeline_value for it (it waits for the chunk first).
Owes(p, d) == IF p.op = "copy_out" /\ p.at = "wait" /\ p.d = d THEN 1 ELSE 0

\* The shape C1 states: the queue begins with wait(tl, tv - 1) and ends
\* with the only signal on tl, signal(tl, tv).
ProtocolShape(Q, d) ==
  /\ IsWait(Q[1], d, timeline_value[d] - 1)
  /\ IsSignal(Q[Len(Q)], d, timeline_value[d])
  /\ Cardinality(SignalsOn(Q, d)) = 1

\* C1 (as stated): every queue any operation of the core submits to a
\* device begins with wait(timeline_signal, timeline_value - 1) and ends
\* with exactly one signal(timeline_signal, timeline_value), and the host
\* increments timeline_value by exactly one for each submitted queue.
C1_EveryQueueProtocol ==
  [][\A d \in Devs :
       /\ \A Q \in Submitted(d) : ProtocolShape(Q, d)
       /\ (Submitted(d) # {} \/ Owes(pc, d) = 1) =>
            timeline_value'[d] = timeline_value[d] + Cardinality(Submitted(d))
                                   + Owes(pc, d) - Owes(pc', d)]_vars

\* C1 (amended): launch, hcq_profile, copy_in, copy_from_disk, copy_out and
\* the source side of a transfer submit queues of that shape, each followed
\* by one increment, which copy_out makes only after its wait on the chunk
\* succeeded (not when it timed out).  The destination queue of a transfer
\* waits for the source's timeline first and for its own second.  The
\* calibration's sample queue is timestamp, signal(tl, tv) with no wait; its
\* handshake queue is signal(tl, tv), wait(peer tl, peer tv), timestamp,
\* signal(tl, tv + 1), followed by an increment of two.
C1_QueueShapes ==
  [][\A d \in Devs :
       /\ \A Q \in Submitted(d) :
            IF pc'.op = "calibrate" /\ pc'.at = "sample"
              THEN /\ Len(Q) = 2 /\ Q[1].op = "timestamp"
                   /\ IsSignal(Q[2], d, timeline_value[d])
                   /\ timeline_value'[d] = timeline_value[d] + 1
            ELSE IF pc'.op = "calibrate" /\ pc'.at = "hs1"
              THEN /\ Len(Q) = 4
                   /\ IsSignal(Q[1], d, timeline_value[d])
                   /\ IsWait(Q[2], Peer(d), timeline_value[Peer(d)])
                   /\ Q[3].op = "timestamp"
                   /\ IsSignal(Q[4], d, timeline_value[d] + 1)
                   /\ timeline_value'[d] = timeline_value[d] + 2
            ELSE IF pc.op = "transfer" /\ pc.at = "dest"
              THEN /\ d = pc.e
                   /\ IsWait(Q[1], pc.d, timeline_value[pc.d] - 1)
                   /\ IsWait(Q[2], d, timeline_value[d] - 1)
                   /\ IsSignal(Q[Len(Q)], d, timeline_value[d])
                   /\ Cardinality(SignalsOn(Q, d)) = 1
                   /\ timeline_value'[d] = timeline_value[d] + 1
            ELSE /\ ProtocolShape(Q, d)
                 /\ Cardinality(Submitted(d)) = 1
                 /\ timeline_value'[d] = timeline_value[d] + 1 - Owes(pc', d)
       /\ (Owes(pc, d) = 1 /\ pc' # pc) =>
            timeline_value'[d] = timeline_value[d] + Cardinality(Submitted(d))
               + (IF TlValue(d) >= timeline_value[d] THEN 1 ELSE 0)]_vars

\* C1 witness: a transfer has put its queue on the destination's compute
\* engine (first command: a wait on the source's timeline) and incremented
\* the destination's timeline_value, and a calibration sample is in flight.
C1_Witness ==
  \E d \in Devs :
    /\ eng[d]["compute"] # <<>>
    /\ eng[d]["compute"][1][1].op = "wait"
    /\ eng[d]["compute"][1][1].sd # d
    /\ timeline_value[d] >= 2
    /\ pc.op = "calibrate" /\ pc.at = "sample"

\* C2 (as stated): between two wraps the value of a device's active
\* timeline signal never decreases, whatever the interleaving of host
\* submissions and device executions.
C2_TimelineMonotone ==
  [][\A d \in Devs :
       active'[d] = active[d] =>
         sigval'[d][active[d] + 1] >= sigval[d][active[d] + 1]]_vars

\* Queue Q still holds a signal on a timeline signal of device d.
SignalPending(Q, d) == \E j \in 1 .. Len(Q) : Q[j].op = "signal" /\ Q[j].sd = d

\* C3 (as stated): when synchronize returns after its wait succeeded, the
\* timeline signal is at least timeline_value - 1 and every queue submitted
\* on the device before the call has executed its final signal; also when
\* the call wrapped the timeline.
C3_SynchronizeDrains ==
  [][(pc.op = "synchronize" /\ pc'.op # "synchronize"
        /\ TlValue(pc.d) >= timeline_value[pc.d] - 1) =>
       /\ sigval'[pc.d][active'[pc.d] + 1] >= timeline_value'[pc.d] - 1
       /\ \A k \in QueueTypes : \A j \in 1 .. Len(eng'[pc.d][k]) :
            ~SignalPending(eng'[pc.d][k][j], pc.d)]_vars

(***************************************************************************)
(* The staging ring: sequences of copy_in and copy_from_disk on one        *)
(* device, with copies longer than the ring.                               *)
(***************************************************************************)

\* The device the single-device scenarios run on.
OneDev == {1}

RingCall ==
  \E d \in OneDev :
    \/ \E n \in 0 .. RingChunks * BufSize : CopyInCall(d, n)
    \/ \E n \in 1 .. RingChunks : DiskCall(d, n)

InitRing ==
  /\ qtype = "compute"
  /\ InitBuilder
  /\ profile \in BOOLEAN
  /\ hw_copy_queue_t = [d \in Devs |-> TRUE]
  /\ on_device_hang = [d \in Devs |-> FALSE]
  /\ InitDevices
  /\ InitObjects
  /\ nops = MaxRingOps

NextRing ==
  \/ RingCall
  \/ CopyInSlotOk \/ CopyInWrite \/ CopyInTimeout \/ ProfExit
  \/ DiskGetBuf \/ DiskYield
  \/ DeviceStep

SpecRing == InitRing /\ [][NextRing]_vars

\* A queue not yet executed on device d still copies out of slot i.
CopyPending(d, i) ==
  \E k \in QueueTypes : \E j \in 1 .. Len(eng[d][k]) : \E m \in 1 .. Len(eng[d][k][j]) :
    eng[d][k][j][m].op = "copy" /\ eng[d][k][j][m].slot = i

\* The slots the producer of copy_from_disk holds.
Held == IF pc.op = "copy_from_disk" THEN {pc.x[j] : j \in 1 .. Len(pc.x)} ELSE {}

\* The host is at a write into slot i of device d: copy_in's memmove, or
\* the producer filling a slot it was handed.
HostWrites(d, i) ==
  \/ pc.op = "copy_in" /\ pc.at = "write" /\ pc.d = d /\ b_next[d] = i
  \/ pc.op = "copy_from_disk" /\ pc.d = d /\ i \in Held

\* C4 (as stated): the host writes into b[i], in copy_in or in the producer
\* of copy_from_disk, only in states where timeline_signal.value >=
\* b_timeline[i], and never into a slot whose device copy is pending.
C4_WriteOnlyWhenFree ==
  \A d \in Devs : \A i \in 0 .. (NSlots - 1) :
    HostWrites(d, i) => TlValue(d) >= b_timeline[d][i] /\ ~CopyPending(d, i)

\* C4 (amended): copy_in writes into b[i] only in states where
\* timeline_signal.value >= b_timeline[i], the slot is not reserved and no
\* device copy out of it is pending; the slots the producer of
\* copy_from_disk fills are reserved (b_timeline[i] = 1 << 64, above the
\* signal's value), distinct, with no device copy pending; and the callback
\* hands out a slot only when timeline_signal.value >= b_timeline[i], the
\* slot is not reserved and no device copy out of it is pending.
C4_RingSafety ==
  /\ [](\A d \in Devs : \A i \in 0 .. (NSlots - 1) :
          /\ (pc.op = "copy_in" /\ pc.at = "write" /\ pc.d = d /\ b_next[d] = i) =>
               /\ TlValue(d) >= b_timeline[d][i]
               /\ b_timeline[d][i] # Reserved
               /\ ~CopyPending(d, i)
          /\ (pc.op = "copy_from_disk" /\ pc.d = d /\ i \in Held) =>
               /\ b_timeline[d][i] = Reserved
               /\ ~CopyPending(d, i)
               /\ Cardinality({j \in 1 .. Len(pc.x) : pc.x[j] = i}) = 1)
  /\ [][(pc'.op = "copy_from_disk" /\ pc.op = "copy_from_disk" /\ Len(pc'.x) > Len(pc.x)) =>
          LET i == pc'.x[Len(pc'.x)]
          IN /\ TlValue(pc.d) >= b_timeline[pc.d][i]
             /\ b_timeline[pc.d][i] # Reserved
             /\ ~CopyPending(pc.d, i)
             /\ b_timeline'[pc.d][i] = Reserved]_vars

\* C4 witness: copy_in is about to write a slot that an earlier chunk of
\* the same copy used: its wait was against that chunk's timeline value.
C4_Witness ==
  /\ pc.op = "copy_in" /\ pc.at = "write"
  /\ b_timeline[pc.d][b_next[pc.d]] > 0
  /\ pc.i >= NSlots * BufSize

\* ceil(n / BufSize).
Ceil(n) == (n + BufSize - 1) \div BufSize

\* The last chunk below c of a copy_in entered with b_next = b0 that uses
\* slot s (-1: none).
RECURSIVE LastUse(_, _, _)
LastUse(b0, c, s) ==
  IF c = 0 THEN -1
  ELSE IF (b0 + c) % NSlots = s THEN c - 1 ELSE LastUse(b0, c - 1, s)

\* C10: with PROFILE off, copy_in of n bytes submits ceil(n / B) copy
\* queues; the k-th copies min(B, n - k * B) bytes to dest + k * B out of
\* slot (b_next0 + k + 1) mod N and signals timeline value tv0 + k; when it
\* returns, timeline_value is tv0 + ceil(n / B), b_next is (b_next0 +
\* ceil(n / B)) mod N and b_timeline of each used slot is the value signaled
\* by the last chunk that used it; with n = 0 nothing is submitted and
\* nothing changes (in the staging-ring scenario the only operation that
\* starts and returns in one step is copy_in of 0 bytes).
C10_CopyInChunks ==
  [][~profile =>
       /\ (pc.op = "copy_in" /\ pc.at = "write" /\ pc' # pc) =>
            LET d == pc.d
                k == pc.i \div BufSize
                b0 == pc.x[1]
                t0 == pc.x[2]
                c == Ceil(pc.n)
            IN /\ Len(eng'[d]["copy"]) = Len(eng[d]["copy"]) + 1
               /\ Cardinality(Submitted(d)) = 1
               /\ \A Q \in Submitted(d) :
                    /\ Cardinality({j \in 1 .. Len(Q) : Q[j].op = "copy"}) = 1
                    /\ \A j \in 1 .. Len(Q) : Q[j].op = "copy" =>
                         /\ Q[j].val = (IF pc.n - k * BufSize < BufSize
                                          THEN pc.n - k * BufSize ELSE BufSize)
                         /\ Q[j].dst = k * BufSize
                         /\ Q[j].slot = (b0 + k + 1) % NSlots
                    /\ IsSignal(Q[Len(Q)], d, t0 + k)
               /\ timeline_value'[d] = t0 + k + 1
               /\ b_timeline'[d][(b0 + k + 1) % NSlots] = t0 + k
               /\ k + 1 <= c
               /\ pc'.op = "idle" <=> k + 1 = c
               /\ pc'.op = "idle" =>
                    /\ timeline_value'[d] = t0 + c
                    /\ b_next'[d] = (b0 + c) % NSlots
                    /\ \A s \in 0 .. (NSlots - 1) :
                         LastUse(b0, c, s) >= 0 =>
                           b_timeline'[d][s] = t0 + LastUse(b0, c, s)
       /\ (pc.op = "idle" /\ pc'.op = "copy_in") =>
            /\ pc'.n > 0
            /\ Submitted(pc'.d) = {}
            /\ UNCHANGED <<timeline_value, b_timeline>>
       /\ (pc.op = "idle" /\ pc'.op = "idle" /\ nops' # nops) =>
            UNCHANGED <<timeline_value, b_timeline, b_next, eng, sigval, active>>]_vars

\* C10 witness: copy_in, entered with b_next # 0 and PROFILE off, is at the
\* write of a last, partial chunk that reuses a slot of the ring.
C10_Witness ==
  /\ ~profile
  /\ pc.op = "copy_in" /\ pc.at = "write"
  /\ pc.x[1] # 0
  /\ pc.i >= NSlots * BufSize
  /\ pc.n - pc.i < BufSize

(***************************************************************************)
(* The wrap of the timeline: launches, copy_in and synchronize on one      *)
(* device.  The host thread runs and the engines execute what they can:    *)
(* weak fairness of the steps of copy_in and of the device.                *)
(***************************************************************************)

WrapCall ==
  \E d \in OneDev :
    \/ \E w \in BOOLEAN : Launch(d, w, ProgArgs)
    \/ SyncCall(d)
    \/ \E n \in 0 .. MaxChunks * BufSize : CopyInCall(d, n)

InitWrap ==
  /\ qtype = "compute"
  /\ InitBuilder
  /\ profile \in BOOLEAN
  /\ hw_copy_queue_t = [d \in Devs |-> TRUE]
  /\ on_device_hang = [d \in Devs |-> FALSE]
  /\ InitDevices
  /\ InitObjects
  /\ nops = MaxWrapOps

NextWrap ==
  \/ WrapCall
  \/ SyncWaitOk \/ SyncTimeout
  \/ CopyInSlotOk \/ CopyInWrite \/ CopyInTimeout \/ ProfExit
  \/ DeviceStep

SpecWrap ==
  /\ InitWrap /\ [][NextWrap]_vars
  /\ WF_vars(CopyInSlotOk \/ CopyInWrite \/ ProfExit)
  /\ WF_vars(DeviceStep)

\* C5: when synchronize's wait succeeded with timeline_value above the
\* threshold, the two signal objects swap, the new active one holds 0,
\* timeline_value is 1 and every b_timeline entry is 0; at or below the
\* threshold nothing is swapped or reset; and a copy_in that follows the
\* wrap finds every slot wait satisfied, returns without a timeout, and the
\* device executes every queue it submitted.
C5_WrapThenCopyIn ==
  /\ [][(pc.op = "synchronize" /\ pc' # pc
           /\ TlValue(pc.d) >= timeline_value[pc.d] - 1) =>
          IF timeline_value[pc.d] > WrapLimit
            THEN /\ active'[pc.d] = 1 - active[pc.d]
                 /\ sigval'[pc.d][active'[pc.d] + 1] = 0
                 /\ sigval'[pc.d][active[pc.d] + 1] = sigval[pc.d][active[pc.d] + 1]
                 /\ timeline_value'[pc.d] = 1
                 /\ \A i \in 0 .. (NSlots - 1) : b_timeline'[pc.d][i] = 0
            ELSE UNCHANGED <<active, sigval, timeline_value, b_timeline>>]_vars
  /\ [](pc.op = "copy_in" /\ pc.ret = "wrapped" /\ pc.at = "wait" =>
          TlValue(pc.d) >= b_timeline[pc.d][b_next[pc.d]])
  /\ \A d \in OneDev :
       (pc.op = "copy_in" /\ pc.ret = "wrapped" /\ pc.d = d)
         ~> (pc.op = "idle" /\ pc.at = "ok")
  /\ \A d \in OneDev :
       (pc.op = "copy_in" /\ pc.ret = "wrapped" /\ pc.d = d)
         ~> (\A k \in QueueTypes : eng[d][k] = <<>>)

\* C5 witness: after a wrap (the second signal object is the active one) a
\* copy_in is at the write of its second chunk.
C5_Witness ==
  /\ pc.op = "copy_in" /\ pc.ret = "wrapped" /\ pc.at = "write"
  /\ active[pc.d] = 1
  /\ timeline_value[pc.d] = 2
  /\ pc.i > 0

(***************************************************************************)
(* Transfers.                                                              *)
(***************************************************************************)

\* Queue Q holds the copy of a transfer into the memory of device t.
TransferCopyIn(Q, t) == \E j \in 1 .. Len(Q) : Q[j].op = "copy" /\ Q[j].dst = PeerAddr(t)

\* Queue Q still has to wait for value v of signal object so of device s.
WaitsFor(Q, s, so, v) ==
  \E j \in 1 .. Len(Q) : Q[j].op = "wait" /\ Q[j].sd = s /\ Q[j].so = so /\ Q[j].val = v

\* C11: with PROFILE off, a transfer between two distinct devices advances
\* the source's timeline_value by one and the destination's by one, and the
\* queue it puts on the destination waits for the source's timeline signal
\* at the value the copy queue signals, so that while the copy is not
\* finished the destination's queue has not passed that wait (and has not
\* signaled the destination's new value); with source = destination only
\* the copy queue is submitted and timeline_value advances by one.
C11_TransferRendezvous ==
  /\ [][~profile =>
          /\ \A s \in Devs : \A t \in Devs : \A Q \in Submitted(s) :
               TransferCopyIn(Q, t) =>
                 /\ IsSignal(Q[Len(Q)], s, timeline_value[s])
                 /\ timeline_value'[s] = timeline_value[s] + 1
                 /\ \A d \in Devs \ {s} :
                      Submitted(d) = {} /\ timeline_value'[d] = timeline_value[d]
                 /\ IF s = t THEN pc'.op = "idle"
                             ELSE pc'.op = "transfer" /\ pc'.at = "dest"
                                    /\ pc'.d = s /\ pc'.e = t
          /\ (pc.op = "transfer" /\ pc.at = "dest" /\ pc' # pc) =>
               /\ pc'.op = "idle"
               /\ Submitted(pc.d) = {}
               /\ timeline_value'[pc.d] = timeline_value[pc.d]
               /\ timeline_value'[pc.e] = timeline_value[pc.e] + 1
               /\ Len(eng'[pc.e]["compute"]) = Len(eng[pc.e]["compute"]) + 1
               /\ \A Q \in Submitted(pc.e) :
                    /\ WaitsFor(Q, pc.d, active[pc.d], timeline_value[pc.d] - 1)
                    /\ IsSignal(Q[Len(Q)], pc.e, timeline_value[pc.e])]_vars
  /\ [](~profile =>
          \A s \in Devs : \A t \in Devs \ {s} :
            \A j \in 1 .. Len(eng[s]["copy"]) :
              LET Q == eng[s]["copy"][j]
              IN TransferCopyIn(Q, t) =>
                   \/ pc.op = "transfer" /\ pc.at = "dest" /\ pc.d = s /\ pc.e = t
                   \/ \E i \in 1 .. Len(eng[t]["compute"]) :
                        /\ WaitsFor(eng[t]["compute"][i], s, Q[Len(Q)].so, Q[Len(Q)].val)
                        /\ SignalPending(eng[t]["compute"][i], t))

(***************************************************************************)
(* Program launch.                                                         *)
(***************************************************************************)

\* The kinds of the commands of queue Q, in order.
Kinds(Q) == [j \in 1 .. Len(Q) |-> Q[j].op]

\* C12: a launch submits one compute queue wait(timeline, timeline_value -
\* 1), memory_barrier, [timestamp], exec, [timestamp], signal(timeline,
\* timeline_value), the timestamps present exactly when wait or PROFILE is
\* set, and increments timeline_value by one; it goes on to synchronize
\* exactly when wait is true, and a duration is returned only by a launch
\* with wait = TRUE whose synchronize returned: every other return is None.
C12_LaunchQueue ==
  [][/\ \A d \in Devs : \A Q \in Submitted(d) :
          (\E j \in 1 .. Len(Q) : Q[j].op = "exec") =>
            LET w == pc'.op = "synchronize"
                mid == IF w \/ profile THEN <<"timestamp", "exec", "timestamp">>
                                       ELSE <<"exec">>
            IN /\ pc.op = "idle"
               /\ Kinds(Q) = <<"wait", "memory_barrier">> \o mid \o <<"signal">>
               /\ IsWait(Q[1], d, timeline_value[d] - 1)
               /\ IsSignal(Q[Len(Q)], d, timeline_value[d])
               /\ Len(eng'[d]["compute"]) = Len(eng[d]["compute"]) + 1
               /\ eng'[d]["copy"] = eng[d]["copy"]
               /\ timeline_value'[d] = timeline_value[d] + 1
               /\ \A o \in Devs \ {d} :
                    Submitted(o) = {} /\ timeline_value'[o] = timeline_value[o]
               /\ IF w THEN pc'.at = "wait" /\ pc'.d = d /\ pc'.ret = "launch"
                       ELSE pc'.op = "idle" /\ pc'.ret = ""
     /\ (pc'.op = "idle" /\ pc'.ret = "duration" /\ pc' # pc) =>
          /\ pc.op = "synchronize" /\ pc.ret = "launch"
          /\ TlValue(pc.d) >= timeline_value[pc.d] - 1
     /\ (pc.op = "synchronize" /\ pc.ret = "launch" /\ pc' # pc) =>
          /\ pc'.op = "idle"
          /\ pc'.ret = "duration" <=> pc'.at = "ok"]_vars

\* A launch with wait = TRUE has returned its duration with PROFILE off.
C12_Witness ==
  /\ ~profile
  /\ pc.op = "idle" /\ pc.ret = "duration"
  /\ \E d \in Devs : timeline_value[d] = 2 /\ TlValue(d) = 1

(***************************************************************************)
(* HCQSignal.wait.                                                         *)
(***************************************************************************)

\* wait(value, timeout) is entered: start_time is read off the clock.  low
\* records that the signal's value has been below the target ever since,
\* met that it was at least the target at the call and ever since.
SignalWait(target, timeout) ==
  /\ sw.pc \in {"idle", "returned", "raised"}
  /\ sw.now + timeout <= MaxTime
  /\ sw' = [sw EXCEPT !.pc = "test", !.target = target, !.timeout = timeout,
                      !.start_time = sw.now, !.time_spent = 0, !.seen = -1,
                      !.low = sw.value < target, !.met = sw.value >= target,
                      !.err = <<>>]
  /\ UNCHANGED <<qvars, dvars, pl>>

\* The loop condition: time_spent is computed from the clock and compared
\* with the timeout.
WaitLoopTest ==
  /\ sw.pc = "test"
  /\ sw' = [sw EXCEPT !.time_spent = sw.now - sw.start_time,
                      !.pc = IF sw.now - sw.start_time < sw.timeout THEN "poll" ELSE "raise"]
  /\ UNCHANGED <<qvars, dvars, pl>>

\* The mutant of WaitPoll: the loop body returns without comparing.
WaitPollBlind ==
  /\ sw.pc = "poll"
  /\ sw' = [sw EXCEPT !.seen = sw.value, !.pc = "returned"]
  /\ UNCHANGED <<qvars, dvars, pl>>

\* The loop body: one read of the value; return when it is at least the
\* target, otherwise _sleep and test again.
WaitPoll ==
  /\ sw.pc = "poll"
  /\ sw' = [sw EXCEPT !.seen = sw.value,
                      !.pc = IF sw.value >= sw.target THEN "returned" ELSE "test"]
  /\ UNCHANGED <<qvars, dvars, pl>>

\* After the loop: RuntimeError, whose message carries the timeout, the
\* target and the value read now.
WaitRaise ==
  /\ sw.pc = "raise"
  /\ sw' = [sw EXCEPT !.pc = "raised", !.err = <<sw.target, sw.value>>]
  /\ UNCHANGED <<qvars, dvars, pl>>

\* A millisecond passes.
ClockTick ==
  /\ sw.now < MaxTime
  /\ sw' = [sw EXCEPT !.now = sw.now + 1]
  /\ UNCHANGED <<qvars, dvars, pl>>

\* The device, or another thread, stores v into the signal.
SignalStore(v) ==
  /\ v # sw.value
  /\ sw' = [sw EXCEPT !.value = v, !.low = sw.low /\ v < sw.target,
                      !.met = sw.met /\ v >= sw.target]
  /\ UNCHANGED <<qvars, dvars, pl>>

InitWait ==
  /\ qtype = "compute"
  /\ InitBuilder
  /\ profile = FALSE
  /\ hw_copy_queue_t = [d \in Devs |-> TRUE]
  /\ on_device_hang = [d \in Devs |-> FALSE]
  /\ InitDevices
  /\ nops = 0
  /\ pl = [writers |-> 0, mjson |-> 0, actors |-> {}, alive |-> {}, made |-> 0,
           events |-> [l \in 1 .. MaxLoggers |-> 0], deps |-> [l \in 1 .. MaxLoggers |-> 0],
           saved |-> <<>>]
  /\ sw \in {[pc |-> "idle", value |-> v, now |-> 0, target |-> 0, timeout |-> 0,
              start_time |-> 0, time_spent |-> 0, seen |-> -1, low |-> FALSE,
              met |-> FALSE, err |-> <<>>] : v \in 0 .. MaxValue}

WaitStep == WaitLoopTest \/ WaitPoll \/ WaitRaise

NextWait ==
  \/ \E target \in 0 .. MaxValue : \E timeout \in 0 .. MaxTimeout : SignalWait(target, timeout)
  \/ WaitStep
  \/ ClockTick
  \/ \E v \in 0 .. MaxValue : SignalStore(v)

\* The clock advances and the waiting thread runs.
SpecWait == InitWait /\ [][NextWait]_vars /\ WF_vars(ClockTick) /\ WF_vars(WaitStep)

\* C13: a wait during which the signal's value stayed below the target
\* never returns normally, it ends with the timeout error, which reports
\* the target and the value observed; wait returns normally only after a
\* poll that read a value >= target; and no step of wait changes the
\* signal's value.
C13_WaitOutcome ==
  /\ [](sw.pc = "returned" => ~sw.low /\ sw.seen >= sw.target)
  /\ [](sw.pc = "raised" => sw.err[1] = sw.target /\ (sw.low => sw.err[2] < sw.target))
  /\ [][/\ sw'.pc = "raised" /\ sw.pc # "raised" => sw'.err = <<sw.target, sw.value>>
        /\ sw'.pc # sw.pc => sw'.value = sw.value
        /\ sw'.value # sw.value =>
             sw' = [sw EXCEPT !.value = sw'.value, !.low = sw'.low, !.met = sw'.met]]_vars
  /\ (sw.pc \in {"test", "poll", "raise"}) ~> (sw.pc \in {"returned", "raised"})
  /\ (sw.pc = "test" /\ sw.time_spent = 0 /\ sw.seen = -1)
       ~> (sw.pc = "raised" \/ ~sw.low)

\* A wait with a positive timeout polled the signal, which stayed below the
\* target, and ended with the timeout error.
C13_Witness ==
  /\ sw.pc = "raised" /\ sw.low /\ sw.timeout > 0 /\ sw.seen >= 0
  /\ sw.seen < sw.target /\ sw.err = <<sw.target, sw.value>>

(***************************************************************************)
(* The clock calibration.                                                  *)
(***************************************************************************)

CalOps == \E d \in Devs : Launch(d, FALSE, ProgArgs) \/ CalCall(d)

\* Any of the devices may be one without a copy queue class.
InitCal ==
  /\ qtype = "compute"
  /\ InitBuilder
  /\ profile = FALSE
  /\ hw_copy_queue_t \in [Devs -> BOOLEAN]
  /\ on_device_hang = [d \in Devs |-> FALSE]
  /\ InitDevices
  /\ InitObjects
  /\ nops = MaxCalOps

NextCal ==
  \/ CalOps
  \/ CalSampleOk \/ CalHandshakeFirstOk \/ CalHandshakeSecondOk \/ CalTimeout
  \/ DeviceStep

SpecCal == InitCal /\ [][NextCal]_vars

\* The host starts _ensure_shared_time_base (in SpecCal the only other
\* operation is a launch, which submits an exec).
CalEntered ==
  /\ pc.op = "idle" /\ nops' # nops
  /\ \A d \in Devs : \A Q \in Submitted(d) : \A j \in 1 .. Len(Q) : Q[j].op # "exec"

\* What C14 says of one step, with the set K(d) of diffs that are numbers
\* after a completed call: the step that completes _ensure_shared_time_base leaves
\* those diffs set, a diff once set stays set, and a call entered when every
\* device's compute diff is set returns at once: nothing is submitted, no
\* timeline_value and no diff changes.
MemoizedAfter(K(_)) ==
  /\ (pc.op = "calibrate" /\ pc'.op = "idle" /\ pc'.at = "ok") =>
       \A d \in Devs : \A k \in K(d) : time_diff'[d][k]
  /\ \A d \in Devs : \A k \in QueueTypes : time_diff[d][k] => time_diff'[d][k]
  /\ (CalEntered /\ \A d \in Devs : time_diff[d]["compute"]) =>
       /\ pc' = Idle
       /\ \A d \in Devs : Submitted(d) = {}
       /\ UNCHANGED <<timeline_value, time_diff, eng, active, sigval>>

AllDiffs(d) == QueueTypes

OwnDiffs(d) == IF hw_copy_queue_t[d] THEN QueueTypes ELSE {"compute"}

LaunchCall == \E d \in OneDev : (\E w \in BOOLEAN : Launch(d, w, ProgArgs)) \/ SyncCall(d)

InitLaunch ==
  /\ qtype = "compute"
  /\ InitBuilder
  /\ profile \in BOOLEAN
  /\ hw_copy_queue_t = [d \in Devs |-> TRUE]
  /\ on_device_hang \in {[d \in Devs |-> h] : h \in BOOLEAN}
  /\ InitDevices
  /\ InitObjects
  /\ nops = MaxLaunchOps

NextLaunch ==
  \/ LaunchCall
  \/ SyncWaitOk \/ SyncTimeout \/ SyncHang \/ HangRaises \/ HangReturns
  \/ DeviceStep

SpecLaunch == InitLaunch /\ [][NextLaunch]_vars

\* C15: the value cell of every signal object, a device's timeline signal
\* and its shadow signal included, never decreases, across submissions,
\* synchronize calls and wraps, a second wrap that re-activates a retired
\* signal included.
C15_SignalValuesMonotone ==
  [][\A d \in Devs : \A o \in 1 .. 2 : sigval'[d][o] >= sigval[d][o]]_vars

(***************************************************************************)
(* synchronize and the hook on_device_hang.                                *)
(***************************************************************************)

\* The host stands in synchronize's wait and the value it polls is below
\* the target.
SyncTimedOut ==
  pc.op = "synchronize" /\ pc.at = "wait" /\ TlValue(pc.d) < timeline_value[pc.d] - 1

\* What C16 says of a timed-out wait: without the hook the error reaches
\* the caller and timeline_value, the signals, b_timeline and the profile
\* record lists are unchanged; with the hook, the hook is invoked, once.
TimeoutHandling ==
  /\ (SyncTimedOut /\ ~on_device_hang[pc.d] /\ pc' # pc) =>
       /\ pc' = Done("RuntimeError", 0)
       /\ UNCHANGED <<timeline_value, active, sigval, b_timeline,
                      sig_prof_records, raw_prof_records>>
  /\ (SyncTimedOut /\ on_device_hang[pc.d] /\ pc' # pc) => pc'.at = "hang"
  /\ (pc'.at = "hang" /\ pc' # pc) => SyncTimedOut /\ on_device_hang[pc.d]
  /\ (pc.at = "hang" /\ pc' # pc) => pc'.op = "idle"

\* C16: in synchronize, a timed-out wait on a device without the hook
\* raises to the caller and changes nothing; with the hook, the hook is
\* invoked exactly once; and _wrap_timeline_signal runs only in a
\* synchronize whose wait succeeded, never after a timed-out wait, and only
\* when timeline_value is above the threshold.
C16_SynchronizeTimeout ==
  [][/\ TimeoutHandling
     /\ \A d \in Devs :
          active'[d] # active[d] =>
            /\ pc.op = "synchronize" /\ pc.at = "wait" /\ pc.d = d
            /\ TlValue(d) >= timeline_value[d] - 1
            /\ WrapNeeded(timeline_value[d])]_vars

(***************************************************************************)
(* The wrap and the queues in flight.                                      *)
(***************************************************************************)

\* A queue in flight on device e holds a wait or a signal on the signal
\* object that is device d's timeline signal in the current state.
RefersToTimeline(e, d) ==
  \E k \in QueueTypes : \E j \in 1 .. Len(eng[e][k]) : \E m \in 1 .. Len(eng[e][k][j]) :
    LET c == eng[e][k][j][m]
    IN c.op \in {"wait", "signal"} /\ c.sd = d /\ c.so = active[d]

\* C17: when _wrap_timeline_signal runs on device D, no queue submitted to
\* any device and not yet executed to the end holds a wait or a signal on
\* the signal object D retires, the waits a transfer put into a peer's
\* queue included.
C17_WrapQuiescent ==
  [][\A d \in Devs : active'[d] # active[d] =>
       \A e \in Devs : ~RefersToTimeline(e, d)]_vars

(***************************************************************************)
(* The temp-buffer callback of copy_from_disk.                             *)
(***************************************************************************)

\* What C18 says of one step of copy_from_disk on device pc.d, r being the
\* value that marks a slot as reserved.  A step of the operation that
\* submits nothing is a call of the callback: with s = (b_next + 1) mod N,
\* when b_timeline[s] <= timeline_signal.value it sets b_timeline[s] to r
\* and b_next to s and returns slot s, else it returns None and b_next and
\* b_timeline are unchanged.  A step that submits a chunk's queue sets
\* b_timeline of the chunk's slot to the value that queue signals.
TempBufStep(r) ==
  (pc.op = "copy_from_disk" /\ pc.at = "run" /\ pc' # pc) =>
    LET d == pc.d
        s == (b_next[d] + 1) % NSlots
    IN IF Submitted(d) = {}
         THEN IF b_timeline[d][s] <= TlValue(d)
                THEN /\ b_timeline' = [b_timeline EXCEPT ![d][s] = r]
                     /\ b_next' = [b_next EXCEPT ![d] = s]
                     /\ pc'.ret = "buf" /\ pc'.x = Append(pc.x, s)
                ELSE /\ pc'.ret = "None" /\ pc'.x = pc.x
                     /\ UNCHANGED <<b_timeline, b_next>>
         ELSE \A Q \in Submitted(d) :
                /\ Q[2].op = "copy" /\ Q[2].slot = Head(pc.x)
                /\ IsSignal(Q[Len(Q)], d, timeline_value[d])
                /\ b_timeline' = [b_timeline EXCEPT ![d][Head(pc.x)] = timeline_value[d]]
                /\ b_next' = b_next

\* C18 as stated: the reserved value is 2^64 - 1.
C18_TempBufCallback == [][TempBufStep(SignalMax)]_vars

\* C18 amended: the reserved value is 2^64 (1 << 64), above every value of
\* a signal.
C18_TempBufCallbackReserved == [][TempBufStep(Reserved)]_vars

\* The callback has returned None for a slot whose copy is pending, after
\* it handed out a slot whose chunk was then submitted.
C18_Witness ==
  /\ pc.op = "copy_from_disk" /\ pc.ret = "None" /\ pc.i > 0
  /\ \E i \in 0 .. (NSlots - 1) : b_timeline[pc.d][i] = Reserved
  /\ \E i \in 0 .. (NSlots - 1) : b_timeline[pc.d][i] = timeline_value[pc.d] - 1

(***************************************************************************)
(* The kernargs arena.                                                     *)
(***************************************************************************)

\* One device launching programs of every kernargs size up to the arena's.
ArgsCall == \E d \in OneDev : \E size \in 1 .. ArenaSize : Launch(d, FALSE, size)

InitArgs ==
  /\ qtype = "compute"
  /\ InitBuilder
  /\ profile = FALSE
  /\ hw_copy_queue_t = [d \in Devs |-> TRUE]
  /\ on_device_hang = [d \in Devs |-> FALSE]
  /\ InitDevices
  /\ InitObjects
  /\ nops = MaxArgsOps

NextArgs == ArgsCall \/ DeviceStep

SpecArgs == InitArgs /\ [][NextArgs]_vars

\* The address one past the arena.
ArenaEnd == ArenaBase + ArenaSize

\* What C19 says of one launch, whose exec carries the address res that
\* alloc_kernargs(size) returned, reset being the condition under which the
\* pointer goes back to the arena's base: res is the base when reset holds
\* and the old pointer otherwise, the pointer ends at res + size, and the
\* block lies inside the arena.  Without a reset the block starts where the
\* previous one ended, so the blocks between two resets do not overlap.
KernargsStep(reset(_, _)) ==
  \A d \in Devs : \A Q \in Submitted(d) : \A j \in 1 .. Len(Q) :
    Q[j].op = "exec" =>
      LET size == Q[j].val
          res == Q[j].dst
      IN /\ res = IF reset(kernargs_ptr[d], size) THEN ArenaBase ELSE kernargs_ptr[d]
         /\ kernargs_ptr'[d] = res + size
         /\ ArenaBase <= res /\ res + size <= ArenaEnd

\* C19 as stated: the pointer is reset exactly when ptr + size would exceed
\* base + arena_size.
ResetWhenOver(ptr, size) == ptr + size > ArenaEnd

\* The reset as the code takes it: also when the block would end exactly at
\* the arena's end.
ResetWhenAtEnd(ptr, size) == ptr + size >= ArenaEnd

\* C19 as stated: an allocation that fits exactly up to the arena's end is
\* served without a reset.
C19_KernargsBump == [][KernargsStep(ResetWhenOver)]_vars

\* C19 amended: the pointer is reset exactly when ptr + size >= base +
\* arena_size; the rest of the statement as it stands.
C19_KernargsBumpAtEnd ==
  /\ [][KernargsStep(ResetWhenAtEnd)]_vars
  /\ [](\A d \in Devs : ArenaBase <= kernargs_ptr[d] /\ kernargs_ptr[d] <= ArenaEnd)

\* A launch whose kernargs would have ended exactly at the arena's end got
\* the arena's base instead, after two blocks served without a reset.
C19_Witness ==
  /\ nops = 0
  /\ kernargs_ptr[1] = ArenaBase + 2
  /\ Len(eng[1]["compute"]) = 3
  /\ eng[1]["compute"][1][3].dst = ArenaBase
  /\ eng[1]["compute"][2][3].dst = ArenaBase + 1
  /\ eng[1]["compute"][2][3].val = 1
  /\ eng[1]["compute"][3][3].val = 2
  /\ eng[1]["compute"][3][3].dst = ArenaBase

(***************************************************************************)
(* ProfileLogger.                                                          *)
(***************************************************************************)

\* ProfileLogger(): empty events and deps, the class's writers goes up by
\* one.  l is the object (and the actor its events name).
NewLogger(l) ==
  /\ l \notin pl.alive /\ pl.made < MaxMade
  /\ pl' = [pl EXCEPT !.alive = @ \cup {l}, !.made = @ + 1, !.writers = @ + 1,
                      !.events[l] = 0, !.deps[l] = 0]
  /\ UNCHANGED <<qvars, dvars, sw>>

\* add_event on logger l.
AddEvent(l) ==
  /\ l \in pl.alive /\ pl.events[l] < MaxEvents
  /\ pl' = [pl EXCEPT !.events[l] = @ + 1]
  /\ UNCHANGED <<qvars, dvars, sw>>

\* A dependency is appended to l.deps (by _prof_finalize).
AddDep(l) ==
  /\ l \in pl.alive /\ pl.deps[l] < MaxEvents
  /\ pl' = [pl EXCEPT !.deps[l] = @ + 1]
  /\ UNCHANGED <<qvars, dvars, sw>>

\* The entries __del__ of logger l appends to the class's mjson: two
\* metadata entries when its actor is new, one entry per event and two per
\* dependency.
Collected(l) ==
  (IF pl.events[l] + pl.deps[l] > 0 /\ l \notin pl.actors THEN 2 ELSE 0)
    + pl.events[l] + 2 * pl.deps[l]

\* The mutant of DelLogger: the document is written by every destruction
\* that finds entries.
DelLoggerAlwaysSaves(l) ==
  /\ l \in pl.alive
  /\ pl' = [pl EXCEPT !.alive = @ \ {l},
                      !.actors = IF pl.events[l] + pl.deps[l] > 0 THEN @ \cup {l} ELSE @,
                      !.mjson = @ + Collected(l),
                      !.writers = @ - 1,
                      !.saved = IF pl.mjson + Collected(l) > 0
                                  THEN Append(@, pl.mjson + Collected(l)) ELSE @]
  /\ UNCHANGED <<qvars, dvars, sw>>

\* ProfileLogger.__del__ of logger l: its events and deps go to mjson,
\* writers goes down by one, and when writers is then 0 and mjson is not
\* empty the document {"traceEvents": mjson} is written.
DelLogger(l) ==
  /\ l \in pl.alive
  /\ pl' = [pl EXCEPT !.alive = @ \ {l},
                      !.actors = IF pl.events[l] + pl.deps[l] > 0 THEN @ \cup {l} ELSE @,
                      !.mjson = @ + Collected(l),
                      !.writers = @ - 1,
                      !.saved = IF pl.writers - 1 = 0 /\ pl.mjson + Collected(l) > 0
                                  THEN Append(@, pl.mjson + Collected(l)) ELSE @]
  /\ UNCHANGED <<qvars, dvars, sw>>

InitProfiler ==
  /\ qtype = "compute"
  /\ InitBuilder
  /\ profile = TRUE
  /\ hw_copy_queue_t = [d \in Devs |-> TRUE]
  /\ on_device_hang = [d \in Devs |-> FALSE]
  /\ InitDevices
  /\ InitObjects
  /\ nops = 0

NextProfiler ==
  \E l \in 1 .. MaxLoggers : NewLogger(l) \/ AddEvent(l) \/ AddDep(l) \/ DelLogger(l)

SpecProfiler == InitProfiler /\ [][NextProfiler]_vars

\* C20: writers always equals the number of ProfileLogger objects
\* constructed and not yet destroyed; the trace document is written only by
\* a destruction that leaves writers at zero, that is, with no other logger
\* alive, and only when mjson holds at least one entry.
C20_WritersCount ==
  /\ [](pl.writers = Cardinality(pl.alive))
  /\ [][pl'.saved # pl.saved =>
          /\ \E l \in pl.alive : pl'.alive = pl.alive \ {l}
          /\ pl'.alive = {} /\ pl'.writers = 0
          /\ pl'.mjson > 0
          /\ pl'.saved = Append(pl.saved, pl'.mjson)]_vars

\* A logger that had collected an event was destroyed while another one was
\* alive, without a document being written; the last destruction then wrote
\* it.
C20_Witness ==
  /\ pl.made = 2 /\ pl.alive = {} /\ pl.writers = 0
  /\ pl.actors = {1, 2}
  /\ Len(pl.saved) = 1

(***************************************************************************)
(* The profile records.                                                    *)
(***************************************************************************)

\* With PROFILE set, on devices any of which may lack a copy queue class,
\* the host launches programs and calls the allocator's copy operations.
ProfCall ==
  \E d \in Devs :
    \/ \E w \in BOOLEAN : Launch(d, w, ProgArgs)
    \/ \E n \in {0, BufSize, MaxChunks * BufSize} : CopyInCall(d, n)
    \/ DiskCall(d, 1)
    \/ \E n \in {0, BufSize} : CopyOutCall(d, n)
    \/ \E t \in Devs : TransferCall(d, t)
    \/ CopyAssert(d)

InitProf ==
  /\ qtype = "compute"
  /\ InitBuilder
  /\ profile = TRUE
  /\ hw_copy_queue_t \in [Devs -> BOOLEAN]
  /\ on_device_hang = [d \in Devs |-> FALSE]
  /\ InitDevices
  /\ InitObjects
  /\ nops = MaxProfOps

NextProf ==
  \/ ProfCall
  \/ SyncWaitOk \/ SyncTimeout
  \/ CopyInSlotOk \/ CopyInWrite \/ CopyInTimeout \/ ProfExit
  \/ DiskGetBuf \/ DiskYield
  \/ CopyOutStart \/ CopyOutChunk \/ CopyOutWaitOk \/ CopyOutTimeout
  \/ TransferCopy \/ TransferProfExit \/ TransferDest
  \/ DeviceStep

SpecProf == InitProf /\ [][NextProf]_vars

\* The descriptions of the records of the allocator's copy operations.
CopyDescs == {"copy_in", "copy_from_disk", "copy_out", "transfer"}

\* C21: every profile record appended for a program launch is tagged
\* is_copy_queue = false and every record appended by copy_in,
\* copy_from_disk, copy_out and transfer is tagged is_copy_queue = true, on
\* every device, a device constructed without a copy queue type included.
C21_ProfileTags ==
  \A d \in Devs : \A i \in 1 .. Len(sig_prof_records[d]) :
    LET r == sig_prof_records[d][i]
    IN /\ r.desc = "program" => ~r.is_copy
       /\ r.desc \in CopyDescs => r.is_copy

(***************************************************************************)
(* An emitter that fails.                                                  *)
(***************************************************************************)

\* The step is an update_X call that passed its kind guard.
UpdatePatched == \E X \in UpdKinds : call'.op = "update_" \o X /\ call'.res = "ok"

\* C22: when the backend's emitter fails while a command is appended, the
\* queue is left as it was before the call; the offset, length and kind
\* vectors keep equal lengths, and an update that passes its kind guard
\* patches the command whose kind the guard read.
C22_FailedAppendRollsBack ==
  /\ [][call'.res = "NotImplementedError"
          => UNCHANGED <<q, cmds_offset, cmds_len, cmds_meta>>]_vars
  /\ [](Len(cmds_offset) = Len(cmds_len) /\ Len(cmds_len) = Len(cmds_meta))
  /\ [][UpdatePatched
          => /\ cmds_offset[call'.idx + 1] < Len(q)
             /\ q[cmds_offset[call'.idx + 1] + 1] = Opcode(cmds_meta[call'.idx + 1])]_vars

(***************************************************************************)
(* A wait on a signal that is already at its target.                       *)
(***************************************************************************)

\* C23: wait(target, timeout) returns normally, without the timeout error,
\* whenever the signal's value is already >= target at the time of the call,
\* for every timeout >= 0, timeout 0 included.
C23_WaitMetReturns == sw.pc \in {"raise", "raised"} => ~sw.met

(***************************************************************************)
(* The sampling phase of the calibration.                                  *)
(***************************************************************************)

\* The sum of the devices' timeline_value.
RECURSIVE TvSum(_)
TvSum(S) ==
  IF S = {} THEN 0
  ELSE LET d == CHOOSE e \in S : TRUE IN timeline_value[d] + TvSum(S \ {d})

\* The host leaves the sampling loop with every wait of it returned.
SamplingEnds ==
  /\ pc.op = "calibrate" /\ pc.at = "sample"
  /\ pc'.at \notin {"sample", "RuntimeError"}

\* C24: whatever random.choice draws, every (device, queue kind) that
\* exists has a sample when its median is taken, so the calibration goes on
\* with a diff assigned for every such pair; and the sampling phase
\* advances the sum of the devices' timeline_value by one for each of its
\* 100 * len(devices) samples.
C24_SamplingCoversChoices ==
  [][/\ SamplingEnds =>
          /\ pc.i = SamplesPerDev * Cardinality(Devs)
          /\ \A j \in 1 .. Len(Choices) : pc.x[j]
          /\ \A j \in 1 .. Len(Choices) : time_diff'[Choices[j].d][Choices[j].k]
          /\ pc'.op = "calibrate" /\ pc'.at = "hs1"
     /\ (pc' # pc /\ pc'.at = "sample") =>
          /\ TvSum(Devs)' = TvSum(Devs) + 1
          /\ pc'.i = IF pc.at = "sample" THEN pc.i + 1 ELSE 1]_vars

(***************************************************************************)
(* The handshake of two devices.                                           *)
(***************************************************************************)

\* Two fresh devices constructed without a copy queue class; the host calls
\* _ensure_shared_time_base.
HandshakeCall == \E d \in Devs : CalCall(d)

InitHandshake ==
  /\ qtype = "compute"
  /\ InitBuilder
  /\ profile = FALSE
  /\ hw_copy_queue_t = [d \in Devs |-> FALSE]
  /\ on_device_hang = [d \in Devs |-> FALSE]
  /\ InitDevices
  /\ InitObjects
  /\ nops = MaxHandshakeOps

HostRuns == CalSampleOk \/ CalHandshakeFirstOk \/ CalHandshakeSecondOk

DeviceRuns(d) == \E k \in QueueTypes : EngineStep(d, k)

NextHandshake ==
  \/ HandshakeCall
  \/ HostRuns
  \/ CalTimeout
  \/ \E d \in Devs : DeviceRuns(d)

\* The host thread runs and each device executes its queues.
SpecHandshake ==
  /\ InitHandshake /\ [][NextHandshake]_vars
  /\ WF_vars(HostRuns)
  /\ \A d \in Devs : WF_vars(DeviceRuns(d))

\* Device d is idle: nothing is queued on its engines and its timeline
\* signal holds timeline_value - 1.
DeviceIdle(d) ==
  /\ \A k \in QueueTypes : eng[d][k] = <<>>
  /\ TlValue(d) = timeline_value[d] - 1

\* The host is in handshake number h.
InHandshake(h) == pc.op = "calibrate" /\ pc.at \in {"hs1", "hs2"} /\ pc.i = h

\* Handshake number h has just been submitted to two idle devices: no
\* command of its two queues has run.
HandshakeSubmitted(h) ==
  /\ InHandshake(h) /\ pc.at = "hs1"
  /\ \A d \in Devs :
       /\ eng[d]["copy"] = <<>> /\ Len(eng[d]["compute"]) = 1
       /\ TlValue(d) = timeline_value[d] - 3

\* Both queues of handshake number h have run to their end and each
\* timeline signal holds the timeline_value of before the handshake plus 1.
HandshakeCompleted(h) == InHandshake(h) /\ \A d \in Devs : DeviceIdle(d)

\* Both host waits of handshake number h have returned.
HandshakeReturned(h) ==
  \/ pc.op = "calibrate" /\ pc.i = h + 1
  \/ pc.op = "idle" /\ pc.at = "ok" /\ h + 1 = 4 * HandshakeRounds

\* The step submits a handshake to idle devices.
HandshakeStarts ==
  /\ pc' # pc /\ pc'.op = "calibrate" /\ pc'.at = "hs1"
  /\ \A d \in Devs : DeviceIdle(d)

\* No wait of the host has run into its timeout.
NoTimeout == [](pc.at # "RuntimeError")

\* C25: a handshake submitted to two idle devices cannot deadlock: with the
\* devices executing fairly both its queues run to completion, each
\* device's timeline signal reaches its old timeline_value + 1, each
\* timeline_value is advanced by exactly 2, and both host waits return.
C25_HandshakeCompletes ==
  /\ [][/\ HandshakeStarts =>
             \A d \in Devs :
               /\ timeline_value'[d] = timeline_value[d] + 2
               /\ eng'[d]["compute"] = <<HandshakeQueue(d, Peer(d))>>
               /\ eng'[d]["copy"] = <<>>
        /\ (pc.at \in {"hs1", "hs2"} /\ pc'.at = "hs2") => UNCHANGED timeline_value
        /\ (pc.at = "hs1" /\ pc'.at = "hs2") =>
             TlValue(pc.e) >= timeline_value[pc.e] - 1
        /\ (pc.at = "hs2" /\ pc' # pc /\ pc'.at # "RuntimeError") =>
             \A d \in Devs : DeviceIdle(d)]_vars
  /\ NoTimeout =>
       \A h \in 0 .. (4 * HandshakeRounds - 1) :
         /\ HandshakeSubmitted(h) ~> HandshakeCompleted(h)
         /\ HandshakeSubmitted(h) ~> HandshakeReturned(h)

\* The queues of the last handshake have run to their end and the host's
\* first wait has returned.
C25_Witness ==
  /\ HandshakeCompleted(4 * HandshakeRounds - 1) /\ pc.at = "hs2"
  /\ \A d \in Devs : timeline_value[d] >= 3

====
